---- MODULE Spec2Model ----
(***************************************************************************)
(* Model of the vhost-user device engine of src/vdev.c: the connection     *)
(* state machine (change_device_state, server_read, conn_close), the guest *)
(* memory map (map_guest_region, unmap_guest_region, SET_MEM_TABLE) and    *)
(* the vring handlers (vring_set_enable and the SET_VRING_* requests).     *)
(*                                                                         *)
(* File descriptors are numbers handed out lowest-free-first, as the       *)
(* kernel does; open_fds is the process' descriptor table.  Bit masks are  *)
(* sets of feature names (and = \cap, or = \cup).  Return values are the   *)
(* strings "0", "EINVAL", "-EINVAL", ...                                   *)
(***************************************************************************)
EXTENDS Integers, Sequences, FiniteSets, TLC

VARIABLES
    vdev,          \* struct vhd_vdev (vdev.h:83-140)
    open_fds,      \* descriptors open in the process
    mappings,      \* live mmap()ed areas: records [addr, len]
    vhost_events,  \* event sources of the vhost event loop: [fd, ops]
    rq_events,     \* event sources of the request queue loop: [fd, vring]
    g_vdevs,       \* the device registry (vdev.c:21)
    api,           \* the caller's position: before init_server, after it, after uninit
    inflight_file, \* contents of the inflight file the master holds: 16-byte slots
    kick,          \* kick eventfds: the signalled ones, and the ones with a kick
                   \* that no dispatch has started after
    pc,            \* the vhost loop's position: idle between callbacks, or
                   \* inside vring_set_enable of a vring
    last           \* history: the last callback run and what it did

vars == <<vdev, open_fds, mappings, vhost_events, rq_events, g_vdevs, api,
          inflight_file, kick, pc, last>>

----------------------------------------------------------------------------
(* Bounds of the model *)

\* number of descriptors the guest makes available on a queue beyond its base
MaxAvail == 2

\* number of descriptor numbers the process may use (3 .. 3+MaxFds-1)
MaxFds == 5
\* number of address slots mmap() may hand out
MaxMappings == 3
\* max_queues passed to vhd_vdev_init_server
MaxQueues == 1
\* largest nregions of a well-formed SET_MEM_TABLE the master sends
MaxRegionsSent == 2

(* Program constants *)
VHOST_USER_MEM_REGIONS_MAX == 8
PAGE_SIZE == 4096

NULL == 0
Fds == 3 .. (2 + MaxFds)
MmapStride == 16 * PAGE_SIZE
MmapAddrs == { k * MmapStride : k \in 1 .. MaxMappings }

VDEV_INITIALIZED == "INITIALIZED"
VDEV_LISTENING == "LISTENING"
VDEV_CONNECTED == "CONNECTED"
VdevStates == {VDEV_INITIALIZED, VDEV_LISTENING, VDEV_CONNECTED}

\* feature bits, by name
F_PROTOCOL_FEATURES == "VHOST_USER_F_PROTOCOL_FEATURES"
F_REPLY_ACK == "VHOST_USER_PROTOCOL_F_REPLY_ACK"
g_default_features == {F_PROTOCOL_FEATURES}
g_default_protocol_features ==
    {"VHOST_USER_PROTOCOL_F_MQ", "VHOST_USER_PROTOCOL_F_LOG_SHMFD",
     F_REPLY_ACK, "VHOST_USER_PROTOCOL_F_CONFIG"}
\* what the device type's get_features() returns
TypeFeatures == {"VIRTIO_F_DEVICE"}

----------------------------------------------------------------------------
(* The world a handler runs in, as one record, so that handlers compose.   *)

World ==
    [vdev |-> vdev, open_fds |-> open_fds, mappings |-> mappings,
     vhost_events |-> vhost_events, rq_events |-> rq_events,
     g_vdevs |-> g_vdevs, inflight_file |-> inflight_file,
     closed |-> <<>>, sent |-> <<>>, cds |-> <<>>,
     status |-> "0", acked |-> FALSE]

Commit(w) ==
    /\ vdev' = w.vdev
    /\ open_fds' = w.open_fds
    /\ mappings' = w.mappings
    /\ vhost_events' = w.vhost_events
    /\ rq_events' = w.rq_events
    /\ g_vdevs' = w.g_vdevs
    /\ inflight_file' = w.inflight_file

Min(S) == CHOOSE x \in S : \A y \in S : x <= y

\* the n lowest descriptor numbers not in use: what accept(), recvmsg()
\* with SCM_RIGHTS or memfd_create() install
RECURSIVE LowestFree(_, _)
LowestFree(used, n) ==
    IF n = 0 THEN <<>>
    ELSE LET fd == Min(Fds \ used)
         IN <<fd>> \o LowestFree(used \cup {fd}, n - 1)

CanOpen(n) == Cardinality(Fds \ open_fds) >= n

SeqToSet(s) == { s[i] : i \in 1 .. Len(s) }

Count(s, x) == Cardinality({ i \in 1 .. Len(s) : s[i] = x })

\* close(2): releases the descriptor if it is open (EBADF otherwise)
sys_close(w, fd) ==
    [w EXCEPT !.open_fds = @ \ {fd}, !.closed = Append(@, fd)]

\* mmap(NULL, size, ..., MAP_SHARED, fd, offset): a fresh address, or
\* MAP_FAILED (NULL here) when the kernel refuses
sys_mmap(w, size, fd, ok) ==
    LET used == { m.addr : m \in w.mappings }
        free == MmapAddrs \ used
    IN  IF ~ok \/ fd \notin w.open_fds \/ size = 0 \/ free = {}
        THEN [w |-> w, addr |-> NULL]
        ELSE [w |-> [w EXCEPT !.mappings = @ \cup {[addr |-> Min(free), len |-> size]}],
              addr |-> Min(free)]

\* munmap(addr, len): EINVAL for len = 0
sys_munmap(w, addr, len) ==
    IF len = 0 THEN w
    ELSE [w EXCEPT !.mappings = { m \in @ : m.addr # addr }]

----------------------------------------------------------------------------
(* Guest memory map, vdev.c:173-284 *)

ZeroRegion == [gpa |-> 0, uva |-> 0, hva |-> NULL, pages |-> 0, fd |-> 0]

is_region_mapped(reg) == reg.hva # NULL

region_size_bytes(reg) == reg.pages * PAGE_SIZE

\* a faulty variant: the duplicate descriptor of an unchanged region is not closed
map_guest_region_NoClose(w, index, guest_addr, user_addr, size, offset, fd, mmap_ok) ==
    IF index >= VHOST_USER_MEM_REGIONS_MAX THEN [w |-> w, ret |-> "EINVAL"]
    ELSE IF size % PAGE_SIZE # 0 THEN [w |-> w, ret |-> "EINVAL"]
    ELSE IF offset % PAGE_SIZE # 0 THEN [w |-> w, ret |-> "EINVAL"]
    ELSE
      LET pages == size \div PAGE_SIZE
          region == w.vdev.guest_memmap[index]
      IN  IF region.hva # NULL
          THEN IF region.gpa = guest_addr /\ region.pages = pages
               THEN [w |-> w, ret |-> "0"]
               ELSE [w |-> w, ret |-> "EBUSY"]
          ELSE LET m == sys_mmap(w, size, fd, mmap_ok)
               IN  IF m.addr = NULL
                   THEN [w |-> w, ret |-> "ENOMEM"]
                   ELSE [w |-> [m.w EXCEPT !.vdev.guest_memmap[index] =
                                  [gpa |-> guest_addr, uva |-> user_addr,
                                   hva |-> m.addr, pages |-> pages, fd |-> fd]],
                         ret |-> "0"]

map_guest_region(w, index, guest_addr, user_addr, size, offset, fd, mmap_ok) ==
    IF index >= VHOST_USER_MEM_REGIONS_MAX THEN [w |-> w, ret |-> "EINVAL"]
    ELSE IF size % PAGE_SIZE # 0 THEN [w |-> w, ret |-> "EINVAL"]
    ELSE IF offset % PAGE_SIZE # 0 THEN [w |-> w, ret |-> "EINVAL"]
    ELSE
      LET pages == size \div PAGE_SIZE
          region == w.vdev.guest_memmap[index]
      IN  IF region.hva # NULL
          THEN IF region.gpa = guest_addr /\ region.pages = pages
               THEN [w |-> sys_close(w, fd), ret |-> "0"]
               ELSE [w |-> w, ret |-> "EBUSY"]
          ELSE LET m == sys_mmap(w, size, fd, mmap_ok)
               IN  IF m.addr = NULL
                   THEN [w |-> w, ret |-> "ENOMEM"]
                   ELSE [w |-> [m.w EXCEPT !.vdev.guest_memmap[index] =
                                  [gpa |-> guest_addr, uva |-> user_addr,
                                   hva |-> m.addr, pages |-> pages, fd |-> fd]],
                         ret |-> "0"]

unmap_guest_region(w, index) ==
    LET reg == w.vdev.guest_memmap[index]
    IN  IF ~is_region_mapped(reg) THEN w
        ELSE LET w1 == sys_munmap(w, reg.hva, reg.pages * PAGE_SIZE)
                 w2 == sys_close(w1, reg.fd)
             IN  [w2 EXCEPT !.vdev.guest_memmap[index] = ZeroRegion]

RECURSIVE unmap_from(_, _)
unmap_from(w, i) ==
    IF i >= VHOST_USER_MEM_REGIONS_MAX THEN w
    ELSE unmap_from(unmap_guest_region(w, i), i + 1)

vhd_guest_memory_unmap_all(w) == unmap_from(w, 0)

\* first region containing uva, as an hva; NULL if none
map_uva(memmap, uva) ==
    LET hits == { i \in DOMAIN memmap :
                    /\ is_region_mapped(memmap[i])
                    /\ uva >= memmap[i].uva
                    /\ uva - memmap[i].uva < region_size_bytes(memmap[i]) }
    IN  IF hits = {} THEN NULL
        ELSE memmap[Min(hits)].hva + (uva - memmap[Min(hits)].uva)

\* the first live region that contains gpa decides: the hva of gpa if the
\* region also contains the last byte, NULL otherwise.  (In the 64-bit
\* arithmetic of the code last_gpa - reg->gpa is (gpa - reg->gpa) + len - 1
\* without wrap-around, as here.)
map_gpa_len(memmap, gpa, len) ==
    IF len = 0 THEN NULL
    ELSE LET last_gpa == gpa + len - 1
             hits == { i \in DOMAIN memmap :
                         /\ is_region_mapped(memmap[i])
                         /\ gpa >= memmap[i].gpa
                         /\ gpa - memmap[i].gpa < region_size_bytes(memmap[i]) }
         IN  IF hits = {} THEN NULL
             ELSE LET reg == memmap[Min(hits)]
                  IN  IF last_gpa - reg.gpa >= region_size_bytes(reg) THEN NULL
                      ELSE reg.hva + (gpa - reg.gpa)

virtio_map_guest_phys_range(mm, gpa, len) == map_gpa_len(mm, gpa, len)

----------------------------------------------------------------------------
(* Event loops (event.c, declared in server_internal.h:13-24) *)

\* vhd_add_vhost_event: 0, or a negative error code
vhd_add_vhost_event(w, fd, ops, ok) ==
    IF ~ok \/ fd \notin w.open_fds \/ (\E e \in w.vhost_events : e.fd = fd)
    THEN [w |-> w, ret |-> "-ENOMEM"]
    ELSE [w |-> [w EXCEPT !.vhost_events = @ \cup {[fd |-> fd, ops |-> ops]}],
          ret |-> "0"]

vhd_del_vhost_event(w, fd) ==
    [w EXCEPT !.vhost_events = { e \in @ : e.fd # fd }]

\* vhd_attach_event(rq, fd, ev): ev.priv is the vring
vhd_attach_event(w, fd, vring_id, ok) ==
    IF ~ok \/ fd \notin w.open_fds \/ (\E e \in w.rq_events : e.fd = fd)
    THEN [w |-> w, ret |-> "-ENOMEM"]
    ELSE [w |-> [w EXCEPT !.rq_events = @ \cup {[fd |-> fd, vring |-> vring_id]}],
          ret |-> "0"]

vhd_detach_event(w, fd) ==
    [w EXCEPT !.rq_events = { e \in @ : e.fd # fd }]

----------------------------------------------------------------------------
(* The virtqueue primitive (virtio/virt_queue.c) *)

ZeroVirtq ==
    [attached |-> FALSE, desc |-> NULL, avail |-> NULL, used |-> NULL,
     qsz |-> 0, last_avail |-> 0, notify_fd |-> 0]

\* attaches the queue to the ring addresses; refuses a ring with a missing
\* address or an empty size
virtio_virtq_attach(vq, desc_addr, avail_addr, used_addr, num, base) ==
    IF desc_addr = NULL \/ avail_addr = NULL \/ used_addr = NULL \/ num <= 0
    THEN [vq |-> vq, res |-> "-EINVAL"]
    ELSE [vq |-> [attached |-> TRUE, desc |-> desc_addr, avail |-> avail_addr,
                  used |-> used_addr, qsz |-> num, last_avail |-> base,
                  notify_fd |-> -1],
          res |-> "0"]

virtq_set_notify_fd(vq, fd) == [vq EXCEPT !.notify_fd = fd]

virtio_virtq_release(vq) == [vq EXCEPT !.attached = FALSE]

\* the dispatch takes an available descriptor off the queue
virtq_dequeue(vq) == [vq EXCEPT !.last_avail = @ + 1]

----------------------------------------------------------------------------
(* Kick eventfds (eventfd(2), event.c) and the kick callback, vdev.c:1327  *)

NoKicks == [signalled |-> {}, unserved |-> {}]

\* the guest writes to the eventfd: it is readable until it is cleared
guest_kick(k, fd) ==
    [k EXCEPT !.signalled = @ \cup {fd}, !.unserved = @ \cup {fd}]

\* reads the eventfd's counter: the eventfd is not readable any more
vhd_clear_eventfd(k, fd) == [k EXCEPT !.signalled = @ \ {fd}]

\* the descriptors are closed: their eventfds are out of the process's reach
close_eventfds(k, fds) ==
    [signalled |-> k.signalled \ fds, unserved |-> k.unserved \ fds]

\* the device type drains the virtqueue: the dispatch starts after every
\* kick so far, and the guest may kick again while it runs
vhd_vdev_dispatch_requests(k, vring, kick_during) ==
    LET k1 == [k EXCEPT !.unserved = @ \ {vring.kickfd}]
    IN  [k |-> IF kick_during THEN guest_kick(k1, vring.kickfd) ELSE k1,
         ret |-> "0"]

\* a faulty variant: the eventfd is cleared when the dispatch has returned
vring_io_event_ClearAfter(k, vring, kick_during) ==
    IF ~vring.is_enabled THEN [k |-> k, ret |-> "-EINVAL"]
    ELSE LET d == vhd_vdev_dispatch_requests(k, vring, kick_during)
         IN  [k |-> vhd_clear_eventfd(d.k, vring.kickfd), ret |-> d.ret]

\* vdev.c:1327-1342: the read callback of a vring's kick event
vring_io_event(k, vring, kick_during) ==
    IF ~vring.is_enabled THEN [k |-> k, ret |-> "-EINVAL"]
    ELSE LET k1 == vhd_clear_eventfd(k, vring.kickfd)
         IN  vhd_vdev_dispatch_requests(k1, vring, kick_during)

----------------------------------------------------------------------------
(* Vrings, vdev.c:1352-1420 *)

ZeroClientInfo ==
    [desc_addr |-> NULL, avail_addr |-> NULL, used_addr |-> NULL,
     num |-> 0, base |-> 0, inflight_addr |-> NULL]

\* a calloc()ed vring after vhd_vring_init(vring, id, vdev)
vhd_vring_init(id) ==
    [id |-> id, is_enabled |-> FALSE, kickfd |-> -1, callfd |-> -1, errfd |-> 0,
     client_info |-> ZeroClientInfo, vq |-> ZeroVirtq]

vring_set_enable(w, i, do_enable, attach_ok) ==
    LET vring == w.vdev.vrings[i]
    IN  IF do_enable = vring.is_enabled THEN [w |-> w, ret |-> "0"]
        ELSE IF do_enable
        THEN LET a == virtio_virtq_attach(vring.vq,
                          vring.client_info.desc_addr, vring.client_info.avail_addr,
                          vring.client_info.used_addr, vring.client_info.num,
                          vring.client_info.base)
             IN  IF a.res # "0" THEN [w |-> w, ret |-> a.res]
                 ELSE LET vq1 == virtq_set_notify_fd(a.vq, vring.callfd)
                          w1 == [w EXCEPT !.vdev.vrings[i].vq = vq1]
                          e == vhd_attach_event(w1, vring.kickfd, i, attach_ok)
                      IN  IF e.ret # "0"
                          THEN [w |-> [w1 EXCEPT !.vdev.vrings[i].vq =
                                          virtio_virtq_release(@)],
                                ret |-> e.ret]
                          ELSE [w |-> [e.w EXCEPT !.vdev.vrings[i].is_enabled = TRUE],
                                ret |-> "0"]
        ELSE LET w1 == vhd_detach_event(w, vring.kickfd)
             IN  [w |-> [w1 EXCEPT !.vdev.vrings[i].vq = virtio_virtq_release(@),
                                   !.vdev.vrings[i].is_enabled = FALSE],
                  ret |-> "0"]

\* vdev.c:1361-1385: the enabling of a disabled vring up to the attachment
\* of its kick event
vring_set_enable_attach(w, i, attach_ok) ==
    LET vring == w.vdev.vrings[i]
        a == virtio_virtq_attach(vring.vq,
                 vring.client_info.desc_addr, vring.client_info.avail_addr,
                 vring.client_info.used_addr, vring.client_info.num,
                 vring.client_info.base)
    IN  IF a.res # "0" THEN [w |-> w, ret |-> a.res]
        ELSE LET vq1 == virtq_set_notify_fd(a.vq, vring.callfd)
                 w1 == [w EXCEPT !.vdev.vrings[i].vq = vq1]
                 e == vhd_attach_event(w1, vring.kickfd, i, attach_ok)
             IN  IF e.ret # "0"
                 THEN [w |-> [w1 EXCEPT !.vdev.vrings[i].vq = virtio_virtq_release(@)],
                       ret |-> e.ret]
                 ELSE [w |-> e.w, ret |-> "0"]

\* vdev.c:1387
vring_set_enable_mark(w, i) == [w EXCEPT !.vdev.vrings[i].is_enabled = TRUE]

\* vdev.c:1389-1390: the disabling of an enabled vring up to the release
\* of its virtqueue
vring_set_disable_detach(w, i) ==
    LET w1 == vhd_detach_event(w, w.vdev.vrings[i].kickfd)
    IN  [w1 EXCEPT !.vdev.vrings[i].vq = virtio_virtq_release(@)]

\* vdev.c:1391
vring_set_disable_mark(w, i) == [w EXCEPT !.vdev.vrings[i].is_enabled = FALSE]

vhd_vring_uninit(w, i) ==
    IF ~w.vdev.vrings[i].is_enabled THEN w
    ELSE vring_set_enable(w, i, FALSE, TRUE).w

RECURSIVE vrings_uninit_from(_, _)
vrings_uninit_from(w, i) ==
    IF i >= w.vdev.max_queues THEN w
    ELSE vrings_uninit_from(vhd_vring_uninit(w, i), i + 1)

----------------------------------------------------------------------------
(* Protocol handlers, vdev.c:357-851.  A handler takes the world, the      *)
(* message, the descriptors received with it and the outcomes nd of the    *)
(* system calls it makes, and yields the world after it and its result.    *)

has_feature(features_qword, feature_bit) == feature_bit \in features_qword

vhost_send(w, msg, ok) ==
    IF ok THEN [w |-> [w EXCEPT !.sent = Append(@, msg)], ret |-> "0"]
    ELSE [w |-> w, ret |-> "-EPIPE"]

\* the message goes out with descriptors attached
vhost_send_fds(w, msg, fds, ok) ==
    vhost_send(w, [req |-> msg.req, flags |-> msg.flags, payload |-> msg.payload,
                   fds |-> fds], ok)

vhost_send_reply(w, msgin, u64, ok) ==
    vhost_send(w, [req |-> msgin.req, flags |-> {"REPLY"}, payload |-> u64], ok)

vhost_get_protocol_features(w, msg, nd) ==
    vhost_send_reply(w, msg, w.vdev.supported_protocol_features, nd.reply_ok)

vhost_set_protocol_features(w, msg) ==
    LET feats == msg.payload \cap w.vdev.supported_protocol_features
    IN  [w |-> [w EXCEPT !.vdev.negotiated_protocol_features = feats], ret |-> "0"]

vhost_get_features(w, msg, nd) ==
    LET w1 == [w EXCEPT !.vdev.supported_features = g_default_features \cup TypeFeatures]
    IN  vhost_send_reply(w1, msg, w1.vdev.supported_features, nd.reply_ok)

\* a faulty variant: the request is stored as it came
vhost_set_features_Unclamped(w, msg) ==
    [w |-> [w EXCEPT !.vdev.negotiated_features = msg.payload], ret |-> "0"]

vhost_set_features(w, msg) ==
    [w |-> [w EXCEPT !.vdev.negotiated_features =
                         msg.payload \cap w.vdev.supported_features],
     ret |-> "0"]

vhost_set_owner(w, msg) ==
    [w |-> [w EXCEPT !.vdev.is_owned = TRUE], ret |-> "0"]

vhost_reset_owner(w, msg) == [w |-> w, ret |-> "ENOTSUP"]

\* close(fds[i]) for i in from .. to-1 (C indices; fds is 1-based here)
RECURSIVE close_fds(_, _, _, _)
close_fds(w, fds, from, to) ==
    IF from >= to THEN w
    ELSE close_fds(sys_close(w, fds[from + 1]), fds, from + 1, to)

RECURSIVE set_mem_table_loop(_, _, _, _, _)

\* a faulty variant: the descriptor of the failed region is not closed
set_mem_table_loop_SkipFailed(w, desc, fds, nd, i) ==
    IF i >= desc.nregions THEN [w |-> w, ret |-> "0"]
    ELSE LET region == desc.regions[i + 1]
             r == map_guest_region(w, i, region.guest_addr, region.user_addr,
                                   region.size, region.mmap_offset, fds[i + 1],
                                   nd.mmap_fail_at # i)
         IN  IF r.ret # "0"
             THEN [w |-> vhd_guest_memory_unmap_all(
                             close_fds(r.w, fds, i + 1, desc.nregions)),
                   ret |-> r.ret]
             ELSE set_mem_table_loop(r.w, desc, fds, nd, i + 1)

\* vdev.c:487-509: the loop over the regions and the error path
set_mem_table_loop(w, desc, fds, nd, i) ==
    IF i >= desc.nregions THEN [w |-> w, ret |-> "0"]
    ELSE LET region == desc.regions[i + 1]
             r == map_guest_region(w, i, region.guest_addr, region.user_addr,
                                   region.size, region.mmap_offset, fds[i + 1],
                                   nd.mmap_fail_at # i)
         IN  IF r.ret # "0"
             THEN [w |-> vhd_guest_memory_unmap_all(
                             close_fds(r.w, fds, i, desc.nregions)),
                   ret |-> r.ret]
             ELSE set_mem_table_loop(r.w, desc, fds, nd, i + 1)

vhost_set_mem_table(w, msg, fds, nd) ==
    LET desc == msg.payload
    IN  IF desc.nregions > VHOST_USER_MEM_REGIONS_MAX
        THEN [w |-> w, ret |-> "EINVAL"]
        ELSE set_mem_table_loop(w, desc, fds, nd, 0)

\* what the device type's get_config() fills in: the size it wrote
TypeConfigSize(bufsize) == IF bufsize < 8 THEN bufsize ELSE 8

\* the handler rewrites msg->flags; the message as the handler left it is
\* what the dispatcher passes to vhost_ack_request_if_needed
vhost_get_config(w, msg, nd) ==
    LET reply == [msg EXCEPT !.flags = {"REPLY"},
                             !.payload.size = TypeConfigSize(msg.payload.size)]
        r == vhost_send(w, reply, nd.reply_ok)
    IN  [w |-> r.w, ret |-> r.ret, msg |-> reply]

vhost_set_config(w, msg) == [w |-> w, ret |-> "ENOTSUP"]

vhd_vdev_inflight_cleanup(w) ==
    IF w.vdev.inflightfd = -1 THEN w
    ELSE LET w1 == sys_munmap(w, w.vdev.inflight_mem, w.vdev.inflight_size)
             w2 == sys_close(w1, w.vdev.inflightfd)
         IN  [w2 EXCEPT !.vdev.inflightfd = -1, !.vdev.inflight_mem = NULL]

\* sizeof(struct inflight_split_region), sizeof(struct inflight_split_desc)
InflightRegionSize == 16
InflightDescSize == 16

vring_inflight_buf_size(num) == InflightRegionSize + num * InflightDescSize

\* the region in slots of sizeof(struct inflight_split_region) bytes: a slot
\* read as a header (a descriptor slot of zero bytes reads as ZeroSlot)
ZeroSlot ==
    [features |-> 0, version |-> 0, desc_num |-> 0, last_batch_head |-> 0,
     used_idx |-> 0]

\* memset(mem, 0, size)
inflight_memset(size) == [i \in 1 .. (size \div InflightRegionSize) |-> ZeroSlot]

\* vdev.c:736-744
inflight_split_region_init(qsize) ==
    [features |-> 0, version |-> 1, desc_num |-> qsize, last_batch_head |-> 0,
     used_idx |-> 0]

\* a faulty variant: only the header of the first queue is written
inflight_init_from_FirstOnly(mem, i, buf, size, idesc) ==
    IF idesc.num_queues = 0 THEN mem
    ELSE [mem EXCEPT ![1] = inflight_split_region_init(idesc.queue_size)]

\* vdev.c:806-812: the loop over the queues, buf advancing by size
RECURSIVE inflight_init_from(_, _, _, _, _)
inflight_init_from(mem, i, buf, size, idesc) ==
    IF i >= idesc.num_queues THEN mem
    ELSE inflight_init_from(
             [mem EXCEPT ![buf \div InflightRegionSize + 1] =
                            inflight_split_region_init(idesc.queue_size)],
             i + 1, buf + size, size, idesc)

inflight_mmap_region(w, fd, size, ok) ==
    LET m == sys_mmap(w, size, fd, ok)
    IN  IF m.addr = NULL THEN [w |-> w, ret |-> "ENOMEM"]
        ELSE [w |-> [m.w EXCEPT !.vdev.inflightfd = fd,
                                !.vdev.inflight_mem = m.addr,
                                !.vdev.inflight_size = size],
              ret |-> "0"]

\* memfd_create, ftruncate, mmap and the send succeed or fail as nd says
vhost_get_inflight_fd(w, msg, fds, nd) ==
    LET w1 == vhd_vdev_inflight_cleanup(w)
        idesc == msg.payload
        size == vring_inflight_buf_size(idesc.queue_size) * idesc.num_queues
    IN  IF ~nd.memfd_ok \/ w1.open_fds = Fds
        THEN [w |-> w1, ret |-> "EMFILE", msg |-> msg]
        ELSE
          LET fd == Min(Fds \ w1.open_fds)
              w2 == [w1 EXCEPT !.open_fds = @ \cup {fd}]
          IN  IF ~nd.trunc_ok
              THEN [w |-> sys_close(w2, fd), ret |-> "EINVAL", msg |-> msg]
              ELSE
                LET m == inflight_mmap_region(w2, fd, size, nd.inflight_mmap_ok)
                IN  IF m.ret # "0"
                    THEN [w |-> sys_close(m.w, fd), ret |-> m.ret, msg |-> msg]
                    ELSE
                      LET mem == inflight_init_from(
                                     inflight_memset(m.w.vdev.inflight_size), 0, 0,
                                     vring_inflight_buf_size(idesc.queue_size), idesc)
                          reply == [msg EXCEPT !.flags = {"REPLY"},
                                               !.payload.mmap_size = size,
                                               !.payload.mmap_offset = 0]
                          r == vhost_send_fds(m.w, reply, <<fd>>, nd.reply_ok)
                      IN  IF r.ret # "0"
                          THEN LET w3 == sys_munmap(r.w, r.w.vdev.inflight_mem,
                                                    r.w.vdev.inflight_size)
                                   w4 == [w3 EXCEPT !.vdev.inflightfd = -1,
                                                    !.vdev.inflight_mem = NULL]
                               IN  [w |-> sys_close(w4, fd), ret |-> r.ret,
                                    msg |-> reply]
                          ELSE [w |-> [r.w EXCEPT !.inflight_file = mem],
                                ret |-> "0", msg |-> reply]

\* a faulty variant: the descriptor is left open when mmap fails
vhost_set_inflight_fd_NoClose(w, msg, fds, nd) ==
    LET w1 == vhd_vdev_inflight_cleanup(w)
    IN  inflight_mmap_region(w1, fds[1], msg.payload.mmap_size, nd.inflight_mmap_ok)

\* a faulty variant: the region is zeroed and its headers are written again
vhost_set_inflight_fd_Reinit(w, msg, fds, nd) ==
    LET w1 == vhd_vdev_inflight_cleanup(w)
        r == inflight_mmap_region(w1, fds[1], msg.payload.mmap_size,
                                  nd.inflight_mmap_ok)
    IN  IF r.ret # "0" THEN [w |-> sys_close(r.w, fds[1]), ret |-> r.ret]
        ELSE [w |-> [r.w EXCEPT !.inflight_file =
                        inflight_init_from(inflight_memset(Len(@) * InflightRegionSize),
                            0, 0, vring_inflight_buf_size(msg.payload.queue_size),
                            msg.payload)],
              ret |-> "0"]

vhost_set_inflight_fd(w, msg, fds, nd) ==
    LET w1 == vhd_vdev_inflight_cleanup(w)
        r == inflight_mmap_region(w1, fds[1], msg.payload.mmap_size,
                                  nd.inflight_mmap_ok)
    IN  IF r.ret # "0" THEN [w |-> sys_close(r.w, fds[1]), ret |-> r.ret]
        ELSE r

vhost_get_queue_num(w, msg, nd) ==
    vhost_send_reply(w, msg, w.vdev.max_queues, nd.reply_ok)

\* index of the vring, or -1 for the NULL pointer
get_vring(vd, index) == IF index >= vd.num_queues THEN -1 ELSE index

get_vring_not_enabled(vd, index) ==
    LET vring == get_vring(vd, index)
    IN  IF vring # -1 /\ vd.vrings[vring].is_enabled THEN -1 ELSE vring

\* a faulty variant: SET_VRING_KICK enables the vring whatever was negotiated
vhost_set_vring_fd_common_KickEnables(w, msg, fd, type, nd) ==
    LET vring_idx == msg.payload.index
        has_fd == ~msg.payload.invalid_fd
        vring == get_vring(w.vdev, vring_idx)
    IN  IF ~has_fd THEN [w |-> w, ret |-> "ENOTSUP"]
        ELSE IF vring = -1 THEN [w |-> w, ret |-> "EINVAL"]
        ELSE CASE type = "VRING_KICKFD" ->
                    LET w1 == [w EXCEPT !.vdev.vrings[vring].kickfd = fd]
                    IN  vring_set_enable(w1, vring, TRUE, nd.attach_ok)
               [] type = "VRING_CALLFD" ->
                    LET w1 == [w EXCEPT !.vdev.vrings[vring].callfd = fd]
                    IN  IF w1.vdev.vrings[vring].is_enabled
                        THEN [w |-> [w1 EXCEPT !.vdev.vrings[vring].vq =
                                         virtq_set_notify_fd(@, fd)],
                              ret |-> "0"]
                        ELSE [w |-> w1, ret |-> "0"]
               [] type = "VRING_ERRFD" ->
                    [w |-> [w EXCEPT !.vdev.vrings[vring].errfd = fd], ret |-> "0"]

\* a faulty variant: SET_VRING_CALL stores callfd and leaves the virtqueue alone
vhost_set_vring_fd_common_NoNotify(w, msg, fd, type, nd) ==
    LET vring_idx == msg.payload.index
        has_fd == ~msg.payload.invalid_fd
        vring == get_vring(w.vdev, vring_idx)
    IN  IF ~has_fd THEN [w |-> w, ret |-> "ENOTSUP"]
        ELSE IF vring = -1 THEN [w |-> w, ret |-> "EINVAL"]
        ELSE CASE type = "VRING_KICKFD" ->
                    LET w1 == [w EXCEPT !.vdev.vrings[vring].kickfd = fd]
                    IN  IF ~has_feature(w.vdev.negotiated_features, F_PROTOCOL_FEATURES)
                        THEN vring_set_enable(w1, vring, TRUE, nd.attach_ok)
                        ELSE [w |-> w1, ret |-> "0"]
               [] type = "VRING_CALLFD" ->
                    [w |-> [w EXCEPT !.vdev.vrings[vring].callfd = fd], ret |-> "0"]
               [] type = "VRING_ERRFD" ->
                    [w |-> [w EXCEPT !.vdev.vrings[vring].errfd = fd], ret |-> "0"]

vhost_set_vring_fd_common(w, msg, fd, type, nd) ==
    LET vring_idx == msg.payload.index
        has_fd == ~msg.payload.invalid_fd
        vring == get_vring(w.vdev, vring_idx)
    IN  IF ~has_fd THEN [w |-> w, ret |-> "ENOTSUP"]
        ELSE IF vring = -1 THEN [w |-> w, ret |-> "EINVAL"]
        ELSE CASE type = "VRING_KICKFD" ->
                    LET w1 == [w EXCEPT !.vdev.vrings[vring].kickfd = fd]
                    IN  IF ~has_feature(w.vdev.negotiated_features, F_PROTOCOL_FEATURES)
                        THEN vring_set_enable(w1, vring, TRUE, nd.attach_ok)
                        ELSE [w |-> w1, ret |-> "0"]
               [] type = "VRING_CALLFD" ->
                    LET w1 == [w EXCEPT !.vdev.vrings[vring].callfd = fd]
                    IN  IF w1.vdev.vrings[vring].is_enabled
                        THEN [w |-> [w1 EXCEPT !.vdev.vrings[vring].vq =
                                         virtq_set_notify_fd(@, fd)],
                              ret |-> "0"]
                        ELSE [w |-> w1, ret |-> "0"]
               [] type = "VRING_ERRFD" ->
                    [w |-> [w EXCEPT !.vdev.vrings[vring].errfd = fd], ret |-> "0"]

\* fds[0] of the handler: the descriptor received, or what the array held
Fd0(fds) == IF Len(fds) > 0 THEN fds[1] ELSE -1

vhost_set_vring_call(w, msg, fds, nd) ==
    vhost_set_vring_fd_common(w, msg, Fd0(fds), "VRING_CALLFD", nd)

vhost_set_vring_kick(w, msg, fds, nd) ==
    vhost_set_vring_fd_common(w, msg, Fd0(fds), "VRING_KICKFD", nd)

vhost_set_vring_err(w, msg, fds, nd) ==
    vhost_set_vring_fd_common(w, msg, Fd0(fds), "VRING_ERRFD", nd)

vhost_set_vring_num(w, msg) ==
    LET vring == get_vring_not_enabled(w.vdev, msg.payload.index)
    IN  IF vring = -1 THEN [w |-> w, ret |-> "EINVAL"]
        ELSE [w |-> [w EXCEPT !.vdev.vrings[vring].client_info.num = msg.payload.num],
              ret |-> "0"]

vhost_set_vring_base(w, msg) ==
    LET vring == get_vring_not_enabled(w.vdev, msg.payload.index)
    IN  IF vring = -1 THEN [w |-> w, ret |-> "EINVAL"]
        ELSE [w |-> [w EXCEPT !.vdev.vrings[vring].client_info.base = msg.payload.num],
              ret |-> "0"]

vhost_get_vring_base(w, msg, nd) ==
    LET vring == get_vring(w.vdev, msg.payload.index)
    IN  IF vring = -1 THEN [w |-> w, ret |-> "EINVAL"]
        ELSE LET vq_base == w.vdev.vrings[vring].vq.last_avail
                 w1 == IF ~has_feature(w.vdev.negotiated_features, F_PROTOCOL_FEATURES)
                       THEN vring_set_enable(w, vring, FALSE, TRUE).w
                       ELSE w
             IN  vhost_send_reply(w1, msg, vq_base, nd.reply_ok)

\* a faulty variant: every address that translates is stored
vhost_set_vring_addr_Partial(w, msg) ==
    LET vraddr == msg.payload
        vring == get_vring_not_enabled(w.vdev, vraddr.index)
        desc_addr == map_uva(w.vdev.guest_memmap, vraddr.desc_addr)
        used_addr == map_uva(w.vdev.guest_memmap, vraddr.used_addr)
        avail_addr == map_uva(w.vdev.guest_memmap, vraddr.avail_addr)
        keep(old, new) == IF new = NULL THEN old ELSE new
    IN  IF vring = -1 THEN [w |-> w, ret |-> "EINVAL"]
        ELSE [w |-> [w EXCEPT !.vdev.vrings[vring].client_info.desc_addr = keep(@, desc_addr),
                              !.vdev.vrings[vring].client_info.used_addr = keep(@, used_addr),
                              !.vdev.vrings[vring].client_info.avail_addr = keep(@, avail_addr)],
              ret |-> IF desc_addr = NULL \/ used_addr = NULL \/ avail_addr = NULL
                      THEN "EINVAL" ELSE "0"]

vhost_set_vring_addr(w, msg) ==
    LET vraddr == msg.payload
        vring == get_vring_not_enabled(w.vdev, vraddr.index)
        desc_addr == map_uva(w.vdev.guest_memmap, vraddr.desc_addr)
        used_addr == map_uva(w.vdev.guest_memmap, vraddr.used_addr)
        avail_addr == map_uva(w.vdev.guest_memmap, vraddr.avail_addr)
    IN  IF vring = -1 THEN [w |-> w, ret |-> "EINVAL"]
        ELSE IF desc_addr = NULL \/ used_addr = NULL \/ avail_addr = NULL
        THEN [w |-> w, ret |-> "EINVAL"]
        ELSE [w |-> [w EXCEPT !.vdev.vrings[vring].client_info.desc_addr = desc_addr,
                              !.vdev.vrings[vring].client_info.used_addr = used_addr,
                              !.vdev.vrings[vring].client_info.avail_addr = avail_addr],
              ret |-> "0"]

vhost_set_vring_enable(w, msg, nd) ==
    LET vring == get_vring(w.vdev, msg.payload.index)
    IN  IF vring = -1 THEN [w |-> w, ret |-> "EINVAL"]
        ELSE vring_set_enable(w, vring, msg.payload.num = 1, nd.attach_ok)

----------------------------------------------------------------------------
(* Dispatch, vdev.c:855-999 *)

GetterAcked ==
    {"GET_FEATURES", "GET_PROTOCOL_FEATURES", "GET_CONFIG", "GET_QUEUE_NUM",
     "GET_VRING_BASE"}

Unimplemented ==
    {"SET_LOG_BASE", "SET_LOG_FD", "SEND_RARP", "NET_SET_MTU", "SET_SLAVE_REQ_FD",
     "IOTLB_MSG", "SET_VRING_ENDIAN", "CREATE_CRYPTO_SESSION",
     "CLOSE_CRYPTO_SESSION", "POSTCOPY_ADVISE", "POSTCOPY_LISTEN", "POSTCOPY_END"}

\* a faulty variant: a getter that replied is acked as well
vhost_ack_request_if_needed_AckGetters(w, msg, ret, nd) ==
    IF ~has_feature(w.vdev.negotiated_protocol_features, F_REPLY_ACK)
    THEN [w |-> w, ret |-> "0"]
    ELSE IF "REPLY_ACK" \notin msg.flags THEN [w |-> w, ret |-> "0"]
    ELSE LET r == vhost_send_reply(w, msg, ret, nd.ack_ok)
         IN  [w |-> [r.w EXCEPT !.acked = (r.ret = "0")], ret |-> r.ret]

\* a faulty variant: the flag of the message is not looked at
vhost_ack_request_if_needed_IgnoreFlag(w, msg, ret, nd) ==
    IF ~has_feature(w.vdev.negotiated_protocol_features, F_REPLY_ACK)
    THEN [w |-> w, ret |-> "0"]
    ELSE IF ret = "0" /\ msg.req \in GetterAcked THEN [w |-> w, ret |-> "0"]
    ELSE LET r == vhost_send_reply(w, msg, ret, nd.ack_ok)
         IN  [w |-> [r.w EXCEPT !.acked = (r.ret = "0")], ret |-> r.ret]

vhost_ack_request_if_needed(w, msg, ret, nd) ==
    IF ~has_feature(w.vdev.negotiated_protocol_features, F_REPLY_ACK)
    THEN [w |-> w, ret |-> "0"]
    ELSE IF "REPLY_ACK" \notin msg.flags THEN [w |-> w, ret |-> "0"]
    ELSE IF ret = "0" /\ msg.req \in GetterAcked THEN [w |-> w, ret |-> "0"]
    ELSE LET r == vhost_send_reply(w, msg, ret, nd.ack_ok)
         IN  [w |-> [r.w EXCEPT !.acked = (r.ret = "0")], ret |-> r.ret]

\* a faulty variant: the unimplemented opcodes fall into the default arm
vhost_handle_request_NoNotsup(w, msg, fds, nd) ==
    LET r == CASE msg.req = "GET_FEATURES" -> vhost_get_features(w, msg, nd)
               [] msg.req = "SET_FEATURES" -> vhost_set_features(w, msg)
               [] msg.req = "SET_OWNER" -> vhost_set_owner(w, msg)
               [] msg.req = "RESET_OWNER" -> vhost_reset_owner(w, msg)
               [] msg.req = "GET_PROTOCOL_FEATURES" -> vhost_get_protocol_features(w, msg, nd)
               [] msg.req = "SET_PROTOCOL_FEATURES" -> vhost_set_protocol_features(w, msg)
               [] msg.req = "GET_CONFIG" -> vhost_get_config(w, msg, nd)
               [] msg.req = "SET_CONFIG" -> vhost_set_config(w, msg)
               [] msg.req = "SET_MEM_TABLE" -> vhost_set_mem_table(w, msg, fds, nd)
               [] msg.req = "GET_QUEUE_NUM" -> vhost_get_queue_num(w, msg, nd)
               [] msg.req = "SET_VRING_CALL" -> vhost_set_vring_call(w, msg, fds, nd)
               [] msg.req = "SET_VRING_KICK" -> vhost_set_vring_kick(w, msg, fds, nd)
               [] msg.req = "SET_VRING_ERR" -> vhost_set_vring_err(w, msg, fds, nd)
               [] msg.req = "SET_VRING_NUM" -> vhost_set_vring_num(w, msg)
               [] msg.req = "SET_VRING_BASE" -> vhost_set_vring_base(w, msg)
               [] msg.req = "GET_VRING_BASE" -> vhost_get_vring_base(w, msg, nd)
               [] msg.req = "SET_VRING_ADDR" -> vhost_set_vring_addr(w, msg)
               [] msg.req = "SET_VRING_ENABLE" -> vhost_set_vring_enable(w, msg, nd)
               [] msg.req \in Unimplemented -> [w |-> w, ret |-> "EINVAL"]
               [] msg.req = "GET_INFLIGHT_FD" -> vhost_get_inflight_fd(w, msg, fds, nd)
               [] msg.req = "SET_INFLIGHT_FD" -> vhost_set_inflight_fd(w, msg, fds, nd)
               [] OTHER -> [w |-> w, ret |-> "EINVAL"]
        msg1 == IF "msg" \in DOMAIN r THEN r.msg ELSE msg
        w1 == [r.w EXCEPT !.status = r.ret]
        a == vhost_ack_request_if_needed(w1, msg1, r.ret, nd)
    IN  [w |-> a.w, ret |-> IF a.ret # "0" THEN a.ret ELSE r.ret]

vhost_handle_request(w, msg, fds, nd) ==
    LET r == CASE msg.req = "GET_FEATURES" -> vhost_get_features(w, msg, nd)
               [] msg.req = "SET_FEATURES" -> vhost_set_features(w, msg)
               [] msg.req = "SET_OWNER" -> vhost_set_owner(w, msg)
               [] msg.req = "RESET_OWNER" -> vhost_reset_owner(w, msg)
               [] msg.req = "GET_PROTOCOL_FEATURES" -> vhost_get_protocol_features(w, msg, nd)
               [] msg.req = "SET_PROTOCOL_FEATURES" -> vhost_set_protocol_features(w, msg)
               [] msg.req = "GET_CONFIG" -> vhost_get_config(w, msg, nd)
               [] msg.req = "SET_CONFIG" -> vhost_set_config(w, msg)
               [] msg.req = "SET_MEM_TABLE" -> vhost_set_mem_table(w, msg, fds, nd)
               [] msg.req = "GET_QUEUE_NUM" -> vhost_get_queue_num(w, msg, nd)
               [] msg.req = "SET_VRING_CALL" -> vhost_set_vring_call(w, msg, fds, nd)
               [] msg.req = "SET_VRING_KICK" -> vhost_set_vring_kick(w, msg, fds, nd)
               [] msg.req = "SET_VRING_ERR" -> vhost_set_vring_err(w, msg, fds, nd)
               [] msg.req = "SET_VRING_NUM" -> vhost_set_vring_num(w, msg)
               [] msg.req = "SET_VRING_BASE" -> vhost_set_vring_base(w, msg)
               [] msg.req = "GET_VRING_BASE" -> vhost_get_vring_base(w, msg, nd)
               [] msg.req = "SET_VRING_ADDR" -> vhost_set_vring_addr(w, msg)
               [] msg.req = "SET_VRING_ENABLE" -> vhost_set_vring_enable(w, msg, nd)
               [] msg.req \in Unimplemented -> [w |-> w, ret |-> "ENOTSUP"]
               [] msg.req = "GET_INFLIGHT_FD" -> vhost_get_inflight_fd(w, msg, fds, nd)
               [] msg.req = "SET_INFLIGHT_FD" -> vhost_set_inflight_fd(w, msg, fds, nd)
               [] OTHER -> [w |-> w, ret |-> "EINVAL"]
        msg1 == IF "msg" \in DOMAIN r THEN r.msg ELSE msg
        w1 == [r.w EXCEPT !.status = r.ret]
        a == vhost_ack_request_if_needed(w1, msg1, r.ret, nd)
    IN  [w |-> a.w, ret |-> IF a.ret # "0" THEN a.ret ELSE r.ret]

----------------------------------------------------------------------------
(* Connection state machine, vdev.c:1003-1148 *)

\* a faulty variant: the vrings are left as they are
terminate_connection_KeepVrings(w) ==
    LET w1 == vhd_del_vhost_event(w, w.vdev.connfd)
        w2 == vhd_guest_memory_unmap_all(w1)
        w3 == [w2 EXCEPT !.vdev.is_owned = FALSE]
        w5 == sys_close(w3, w3.vdev.connfd)
    IN  [w5 EXCEPT !.vdev.connfd = -1]

\* vdev.c:1011-1021: terminate the connection
terminate_connection(w) ==
    LET w1 == vhd_del_vhost_event(w, w.vdev.connfd)
        w2 == vhd_guest_memory_unmap_all(w1)
        w3 == [w2 EXCEPT !.vdev.is_owned = FALSE]
        w4 == vrings_uninit_from(w3, 0)
        w5 == sys_close(w4, w4.vdev.connfd)
    IN  [w5 EXCEPT !.vdev.connfd = -1]

\* vdev.c:1011-1021: the worlds after each statement of the termination
terminate_connection_trace(w) ==
    LET w1 == vhd_del_vhost_event(w, w.vdev.connfd)
        w2 == vhd_guest_memory_unmap_all(w1)
        w3 == [w2 EXCEPT !.vdev.is_owned = FALSE]
        w4 == vrings_uninit_from(w3, 0)
        w5 == sys_close(w4, w4.vdev.connfd)
    IN  <<w1, w2, w3, w4, w5>>

\* vdev.c:1026-1031: register listenfd, then fall out of the switch
listen_arm(w, new_state, add_ok) ==
    LET a == vhd_add_vhost_event(w, w.vdev.listenfd, "server", add_ok)
    IN  IF a.ret # "0" THEN [w |-> w, ret |-> a.ret]
        ELSE [w |-> [a.w EXCEPT !.vdev.state = new_state], ret |-> "0"]

\* a faulty variant: the listen arm is also taken from LISTENING, and from CONNECTED
\* to CONNECTED the connection is registered again
cds_switch_NoDefault(w, new_state, add_ok) ==
    IF new_state = VDEV_LISTENING
    THEN IF w.vdev.state = VDEV_CONNECTED
         THEN listen_arm(terminate_connection(w), new_state, add_ok)
         ELSE listen_arm(w, new_state, add_ok)
    ELSE IF new_state = VDEV_CONNECTED
    THEN [w |-> [w EXCEPT !.vdev.state = new_state], ret |-> "0"]
    ELSE [w |-> w, ret |-> "-EINVAL"]

\* a faulty variant: the accept arm leaves listenfd registered
cds_switch_KeepListen(w, new_state, add_ok) ==
    LET from == w.vdev.state
        invalid_transition == [w |-> w, ret |-> "-EINVAL"]
    IN  IF new_state = VDEV_LISTENING
        THEN CASE from = VDEV_CONNECTED ->
                    listen_arm(terminate_connection(w), new_state, add_ok)
               [] from = VDEV_INITIALIZED -> listen_arm(w, new_state, add_ok)
               [] OTHER -> invalid_transition
        ELSE IF new_state = VDEV_CONNECTED
        THEN CASE from = VDEV_LISTENING ->
                    LET a == vhd_add_vhost_event(w, w.vdev.connfd, "conn", add_ok)
                    IN  IF a.ret # "0" THEN [w |-> w, ret |-> a.ret]
                        ELSE [w |-> [a.w EXCEPT !.vdev.state = new_state],
                              ret |-> "0"]
               [] OTHER -> invalid_transition
        ELSE invalid_transition

\* vdev.c:1007-1055: the two switch statements
cds_switch(w, new_state, add_ok) ==
    LET from == w.vdev.state
        invalid_transition == [w |-> w, ret |-> "-EINVAL"]
    IN  IF new_state = VDEV_LISTENING
        THEN CASE from = VDEV_CONNECTED ->
                    listen_arm(terminate_connection(w), new_state, add_ok)
               [] from = VDEV_INITIALIZED -> listen_arm(w, new_state, add_ok)
               [] OTHER -> invalid_transition
        ELSE IF new_state = VDEV_CONNECTED
        THEN CASE from = VDEV_LISTENING ->
                    LET a == vhd_add_vhost_event(w, w.vdev.connfd, "conn", add_ok)
                    IN  IF a.ret # "0" THEN [w |-> w, ret |-> a.ret]
                        ELSE [w |-> [vhd_del_vhost_event(a.w, w.vdev.listenfd)
                                       EXCEPT !.vdev.state = new_state],
                              ret |-> "0"]
               [] OTHER -> invalid_transition
        ELSE invalid_transition

\* cds records the call: the state it found, the state asked for, the result
\* and whether the call left the world as it was
change_device_state(w, new_state, add_ok) ==
    LET r == cds_switch(w, new_state, add_ok)
    IN  [w |-> [r.w EXCEPT !.cds = <<w.vdev.state, new_state, r.ret, r.w = w>>],
         ret |-> r.ret]

\* accept() and the two fcntl() calls of server_read succeed or fail
server_read(w, sys) ==
    IF sys = "accept_fails" \/ w.open_fds = Fds THEN [w |-> w, ret |-> "EMFILE"]
    ELSE LET connfd == Min(Fds \ w.open_fds)
             w1 == [w EXCEPT !.open_fds = @ \cup {connfd}]
         IN  IF sys = "fcntl_fails"
             THEN [w |-> sys_close(w1, connfd), ret |-> "EBADF"]
             ELSE LET w2 == [w1 EXCEPT !.vdev.connfd = connfd]
                      c == change_device_state(w2, VDEV_CONNECTED, sys # "add_fails")
                  IN  IF c.ret # "0"
                      THEN [w |-> sys_close(c.w, connfd), ret |-> c.ret]
                      ELSE [w |-> c.w, ret |-> "0"]

conn_close(w, add_ok) == change_device_state(w, VDEV_LISTENING, add_ok)

\* vdev.c:54-116: recvmsg() of the 12 header bytes with the descriptors, then
\* read() of the payload; the number of bytes received ("len"), -errno when
\* a call fails, -EIO when one returns fewer bytes than required
net_recv_msg(recv) ==
    CASE recv = "ok" -> "len"
      [] recv \in {"short_header", "short_payload"} -> "-EIO"
      [] recv \in {"recvmsg_fails", "read_fails"} -> "-ECONNRESET"

\* vdev.c:1123-1138
conn_read(w, msg, fds, nd) ==
    LET len == net_recv_msg(nd.recv)
    IN  IF len # "len" THEN [w |-> w, ret |-> len]
        ELSE vhost_handle_request(w, msg, fds, nd)

----------------------------------------------------------------------------
(* Device lifecycle, vdev.c:1239-1323 *)

\* the vdev after memset(vdev, 0, sizeof(*vdev))
ZeroVdev ==
    [listenfd |-> 0, connfd |-> 0, state |-> VDEV_INITIALIZED, is_owned |-> FALSE,
     supported_protocol_features |-> {}, negotiated_protocol_features |-> {},
     supported_features |-> {}, negotiated_features |-> {},
     max_queues |-> 0, num_queues |-> 0, vrings |-> <<>>,
     guest_memmap |-> [i \in 0 .. (VHOST_USER_MEM_REGIONS_MAX - 1) |-> ZeroRegion],
     inflightfd |-> 0, inflight_mem |-> NULL, inflight_size |-> 0]

vhd_vdev_uninit(w) ==
    LET w1 == sys_close(w, w.vdev.listenfd)
        w2 == vrings_uninit_from(w1, 0)
        w3 == vhd_vdev_inflight_cleanup(w2)
    IN  [w3 EXCEPT !.g_vdevs = @ \ {"vdev"}]

\* vdev.c:1262-1282: the fields of a device that got its listen socket
vdev_construct(w, max_queues, listenfd) ==
    [w EXCEPT
       !.open_fds = @ \cup {listenfd},
       !.vdev.listenfd = listenfd,
       !.vdev.connfd = -1,
       !.vdev.supported_protocol_features = g_default_protocol_features,
       !.vdev.max_queues = max_queues,
       !.vdev.num_queues = max_queues,
       !.vdev.vrings = [i \in 0 .. (max_queues - 1) |-> vhd_vring_init(i)],
       !.vdev.inflightfd = -1,
       !.vdev.inflight_mem = NULL,
       !.vdev.inflight_size = 0,
       !.g_vdevs = @ \cup {"vdev"},
       !.vdev.state = VDEV_INITIALIZED]

\* a faulty variant: a failed listen arm returns the error without uninit
vhd_vdev_init_server_NoUninit(w, max_queues, sock_ok, add_ok) ==
    LET w0 == [w EXCEPT !.vdev = ZeroVdev]
    IN  IF ~sock_ok \/ w.open_fds = Fds THEN [w |-> w0, ret |-> "-1"]
        ELSE LET w1 == vdev_construct(w0, max_queues, Min(Fds \ w.open_fds))
             IN  change_device_state(w1, VDEV_LISTENING, add_ok)

\* sock_create_server gives the listen socket, or -1
vhd_vdev_init_server(w, max_queues, sock_ok, add_ok) ==
    LET w0 == [w EXCEPT !.vdev = ZeroVdev]
    IN  IF ~sock_ok \/ w.open_fds = Fds THEN [w |-> w0, ret |-> "-1"]
        ELSE LET w1 == vdev_construct(w0, max_queues, Min(Fds \ w.open_fds))
                 c == change_device_state(w1, VDEV_LISTENING, add_ok)
             IN  IF c.ret # "0" THEN [w |-> vhd_vdev_uninit(c.w), ret |-> c.ret]
                 ELSE [w |-> c.w, ret |-> "0"]

----------------------------------------------------------------------------
(* What the master sends *)

NoMsg == [req |-> "NONE", flags |-> {}, payload |-> 0]

UvaBase == 1024 * PAGE_SIZE

RegA == [guest_addr |-> 0, user_addr |-> UvaBase, size |-> PAGE_SIZE, mmap_offset |-> 0]
RegB ==
    [guest_addr |-> 16 * PAGE_SIZE, user_addr |-> UvaBase + 16 * PAGE_SIZE,
     size |-> 2 * PAGE_SIZE, mmap_offset |-> 0]
\* RegA with a misaligned offset
RegOdd == [guest_addr |-> 0, user_addr |-> UvaBase, size |-> PAGE_SIZE, mmap_offset |-> 1]
RegionChoices == {RegA, RegB, RegOdd}

RegionSeqs == UNION { [1 .. n -> RegionChoices] : n \in 0 .. MaxRegionsSent }

MemTableMsgs ==
    { [req |-> "SET_MEM_TABLE", flags |-> {},
       payload |-> [nregions |-> Len(rs), regions |-> rs]] : rs \in RegionSeqs }
    \cup
    { [req |-> "SET_MEM_TABLE", flags |-> {},
       payload |-> [nregions |-> VHOST_USER_MEM_REGIONS_MAX + 1, regions |-> <<>>]] }

\* vring indices the master names: the valid ones and one past them
VringIdx == 0 .. MaxQueues
QueueSizes == {0, 4}
QueueBases == {0, 1}
AddrChoices ==
    { [desc_addr |-> UvaBase, avail_addr |-> UvaBase + 64, used_addr |-> UvaBase + 128],
      [desc_addr |-> UvaBase, avail_addr |-> UvaBase + 64, used_addr |-> UvaBase + PAGE_SIZE] }

VringMsgs ==
    { [req |-> r, flags |-> {}, payload |-> [index |-> i, num |-> n]] :
        r \in {"SET_VRING_NUM"}, i \in VringIdx, n \in QueueSizes }
    \cup
    { [req |-> r, flags |-> {}, payload |-> [index |-> i, num |-> n]] :
        r \in {"SET_VRING_BASE"}, i \in VringIdx, n \in QueueBases }
    \cup
    { [req |-> r, flags |-> {}, payload |-> [index |-> i, num |-> n]] :
        r \in {"SET_VRING_ENABLE"}, i \in VringIdx, n \in {0, 1} }
    \cup
    { [req |-> "GET_VRING_BASE", flags |-> {}, payload |-> [index |-> i, num |-> 0]] :
        i \in VringIdx }
    \cup
    { [req |-> "SET_VRING_ADDR", flags |-> {},
       payload |-> [index |-> i, desc_addr |-> a.desc_addr,
                    avail_addr |-> a.avail_addr, used_addr |-> a.used_addr]] :
        i \in VringIdx, a \in AddrChoices }
    \cup
    { [req |-> r, flags |-> {}, payload |-> [index |-> i, invalid_fd |-> b]] :
        r \in {"SET_VRING_KICK", "SET_VRING_CALL", "SET_VRING_ERR"},
        i \in VringIdx, b \in BOOLEAN }

FeatureChoices ==
    { {}, {F_PROTOCOL_FEATURES, "VIRTIO_F_DEVICE"}, {"VIRTIO_F_DEVICE", "VIRTIO_F_OTHER"} }
ProtocolFeatureChoices == { {}, {F_REPLY_ACK, "VHOST_USER_PROTOCOL_F_OTHER"} }

FeatureMsgs ==
    { [req |-> "SET_FEATURES", flags |-> {}, payload |-> x] : x \in FeatureChoices }
    \cup
    { [req |-> "SET_PROTOCOL_FEATURES", flags |-> {}, payload |-> x] :
        x \in ProtocolFeatureChoices }
    \cup
    { [req |-> r, flags |-> {}, payload |-> 0] :
        r \in {"GET_FEATURES", "GET_PROTOCOL_FEATURES", "GET_QUEUE_NUM",
               "SET_OWNER", "RESET_OWNER", "SET_LOG_BASE", "NONE"} }

\* each message without and with the REPLY_ACK flag
WithFlags(msgs) == msgs \cup { [m EXCEPT !.flags = {"REPLY_ACK"}] : m \in msgs }

Msgs == WithFlags(FeatureMsgs \cup MemTableMsgs \cup VringMsgs)

\* the requests that bring a queue up on a connection without negotiation
SetupMsgs ==
    { m \in FeatureMsgs : m.req = "SET_OWNER" }
    \cup
    { m \in MemTableMsgs : m.payload.regions = <<RegA>> }
    \cup
    { m \in VringMsgs :
        /\ m.payload.index < MaxQueues
        /\ m.req \in {"SET_VRING_NUM", "SET_VRING_ADDR", "SET_VRING_KICK"}
        /\ m.req = "SET_VRING_NUM" => m.payload.num > 0
        /\ m.req = "SET_VRING_ADDR" => m.payload.used_addr < UvaBase + PAGE_SIZE
        /\ m.req = "SET_VRING_KICK" => ~m.payload.invalid_fd }

\* the requests of a master that negotiates, sets up and runs a queue
CoreMsgs ==
    { m \in FeatureMsgs :
        \/ m.req \in {"GET_FEATURES", "SET_OWNER"}
        \/ m.req = "SET_FEATURES" /\ F_PROTOCOL_FEATURES \in m.payload }
    \cup
    { m \in MemTableMsgs : m.payload.regions = <<RegA>> }
    \cup
    { m \in VringMsgs :
        /\ m.payload.index < MaxQueues
        /\ m.req \in {"SET_VRING_NUM", "SET_VRING_ADDR", "SET_VRING_KICK",
                      "SET_VRING_CALL", "SET_VRING_ENABLE", "GET_VRING_BASE"}
        /\ m.req = "SET_VRING_NUM" => m.payload.num > 0
        /\ m.req = "SET_VRING_ADDR" => m.payload.used_addr < UvaBase + PAGE_SIZE
        /\ m.req \in {"SET_VRING_KICK", "SET_VRING_CALL"} => ~m.payload.invalid_fd }

ConfigMsgs ==
    { [req |-> "GET_CONFIG", flags |-> {}, payload |-> [size |-> 8]],
      [req |-> "SET_CONFIG", flags |-> {}, payload |-> [size |-> 8]] }

InflightMsgs ==
    { [req |-> r, flags |-> {},
       payload |-> [num_queues |-> 1, queue_size |-> 4,
                    mmap_size |-> PAGE_SIZE, mmap_offset |-> 0]] :
        r \in {"GET_INFLIGHT_FD", "SET_INFLIGHT_FD"} }

\* an opcode value the protocol does not define
UndefinedMsgs == { [req |-> "UNDEFINED_OPCODE", flags |-> {}, payload |-> 0] }

\* every kind of request, with and without the REPLY_ACK flag: the feature,
\* owner, config and inflight requests, a vring setter and a vring getter
\* with a valid (0) and an out-of-range index, unimplemented and undefined opcodes
ProtoMsgs ==
    WithFlags(
        FeatureMsgs \cup ConfigMsgs \cup InflightMsgs \cup UndefinedMsgs
        \cup { m \in VringMsgs :
                 /\ m.payload.index \in {0, MaxQueues}
                 /\ \/ m.req = "SET_VRING_NUM" /\ m.payload.num > 0
                    \/ m.req = "GET_VRING_BASE" })

\* number of descriptors that come with a message
NFds(msg) ==
    CASE msg.req = "SET_MEM_TABLE" ->
            IF msg.payload.nregions > VHOST_USER_MEM_REGIONS_MAX THEN 1
            ELSE msg.payload.nregions
      [] msg.req \in {"SET_VRING_KICK", "SET_VRING_CALL", "SET_VRING_ERR"} ->
            IF msg.payload.invalid_fd THEN 0 ELSE 1
      [] msg.req = "SET_INFLIGHT_FD" -> 1
      [] OTHER -> 0

\* the outcomes of the system calls a handler may make
Outcomes(msg) ==
    [reply_ok : IF msg.req \in {"GET_FEATURES", "GET_PROTOCOL_FEATURES",
                                "GET_QUEUE_NUM", "GET_VRING_BASE",
                                "GET_CONFIG", "GET_INFLIGHT_FD"}
                THEN BOOLEAN ELSE {TRUE},
     ack_ok : IF "REPLY_ACK" \in msg.flags THEN BOOLEAN ELSE {TRUE},
     attach_ok : IF msg.req \in {"SET_VRING_KICK", "SET_VRING_ENABLE"}
                 THEN BOOLEAN ELSE {TRUE},
     mmap_fail_at : IF msg.req = "SET_MEM_TABLE"
                    THEN -1 .. (MaxRegionsSent - 1) ELSE {-1},
     memfd_ok : IF msg.req = "GET_INFLIGHT_FD" THEN BOOLEAN ELSE {TRUE},
     trunc_ok : IF msg.req = "GET_INFLIGHT_FD" THEN BOOLEAN ELSE {TRUE},
     inflight_mmap_ok : IF msg.req \in {"GET_INFLIGHT_FD", "SET_INFLIGHT_FD"}
                        THEN BOOLEAN ELSE {TRUE},
     recv : {"ok"}]

\* the ways the receipt of a message fails
RecvFailures == {"short_header", "short_payload", "recvmsg_fails", "read_fails"}

----------------------------------------------------------------------------
(* Actions: the caller's API calls and the callbacks of the vhost loop *)

\* the vhost loop is between two callbacks
Idle == [at |-> "idle", vring |-> -1]

Done(op, msg, fds, r) ==
    /\ pc = Idle
    /\ Commit(r.w)
    /\ UNCHANGED pc
    /\ kick' = close_eventfds(kick, SeqToSet(r.w.closed))
    /\ last' = [op |-> op, msg |-> msg, fds |-> fds, ret |-> r.ret,
                closed |-> r.w.closed, sent |-> r.w.sent, cds |-> r.w.cds,
                status |-> r.w.status, acked |-> r.w.acked]

Init ==
    /\ vdev = ZeroVdev
    /\ open_fds = {}
    /\ mappings = {}
    /\ vhost_events = {}
    /\ rq_events = {}
    /\ g_vdevs = {}
    /\ api = "uninitialized"
    /\ inflight_file = <<>>
    /\ kick = NoKicks
    /\ pc = Idle
    /\ last = [op |-> "none", msg |-> NoMsg, fds |-> <<>>, ret |-> "0",
               closed |-> <<>>, sent |-> <<>>, cds |-> <<>>,
               status |-> "0", acked |-> FALSE]

VdevInitServer ==
    /\ api = "uninitialized"
    /\ \E sock_ok \in BOOLEAN, add_ok \in BOOLEAN :
          LET r == vhd_vdev_init_server(World, MaxQueues, sock_ok, add_ok)
          IN  /\ Done("init_server", NoMsg, <<>>, r)
              /\ api' = IF ~sock_ok THEN "uninitialized"
                        ELSE IF r.ret = "0" THEN "initialized" ELSE "destroyed"

VdevUninit ==
    /\ api = "initialized"
    /\ Done("uninit", NoMsg, <<>>, [w |-> vhd_vdev_uninit(World), ret |-> "0"])
    /\ api' = "destroyed"

\* the listen socket is readable: a master connects
ServerRead ==
    /\ api = "initialized"
    /\ \E e \in vhost_events : e.ops = "server"
    /\ \E sys \in {"ok", "accept_fails", "fcntl_fails", "add_fails"} :
          Done("server_read", NoMsg, <<>>, server_read(World, sys))
    /\ UNCHANGED api

\* the master closed the connection
ConnClose ==
    /\ api = "initialized"
    /\ \E e \in vhost_events : e.ops = "conn"
    /\ \E add_ok \in BOOLEAN :
          Done("conn_close", NoMsg, <<>>, conn_close(World, add_ok))
    /\ UNCHANGED api

\* the connection is readable: one request of the master
ConnRead(msgs) ==
    /\ api = "initialized"
    /\ \E e \in vhost_events : e.ops = "conn"
    /\ \E msg \in msgs :
          /\ CanOpen(NFds(msg))
          /\ LET fds == LowestFree(open_fds, NFds(msg))
                 w0 == [World EXCEPT !.open_fds = @ \cup SeqToSet(fds)]
             IN  \E nd \in Outcomes(msg) :
                    Done("conn_read", msg, fds, conn_read(w0, msg, fds, nd))
    /\ UNCHANGED api

Next ==
    \/ VdevInitServer
    \/ VdevUninit
    \/ ServerRead
    \/ ConnClose
    \/ ConnRead(CoreMsgs)

\* the device with a master that negotiates, sets up and runs its queues
Spec == Init /\ [][Next]_vars

NextConn ==
    \/ VdevInitServer
    \/ VdevUninit
    \/ ServerRead
    \/ ConnClose
    \/ ConnRead(SetupMsgs)

\* the connection life cycle, with a master that brings up its queues
SpecConn == Init /\ [][NextConn]_vars

NextMem ==
    \/ VdevInitServer
    \/ VdevUninit
    \/ ServerRead
    \/ ConnClose
    \/ ConnRead(MemTableMsgs)

\* the device with a master that sends memory tables
SpecMem == Init /\ [][NextMem]_vars

\* a region that starts where RegA starts and is twice as long
RegWide ==
    [guest_addr |-> 0, user_addr |-> UvaBase + 32 * PAGE_SIZE,
     size |-> 2 * PAGE_SIZE, mmap_offset |-> 0]

GpaTableMsgs ==
    { [req |-> "SET_MEM_TABLE", flags |-> {},
       payload |-> [nregions |-> Len(rs), regions |-> rs]] :
        rs \in UNION { [1 .. n -> {RegA, RegB, RegWide}] : n \in 0 .. MaxRegionsSent } }

GpaChoices == {0, PAGE_SIZE - 1, PAGE_SIZE, 16 * PAGE_SIZE, 18 * PAGE_SIZE - 1}
LenChoices == {0, 1, 2, PAGE_SIZE, PAGE_SIZE + 1, 2 * PAGE_SIZE}

\* the virtqueue code translates a guest-physical range
TranslateGpaCall ==
    /\ api = "initialized"
    /\ \E gpa \in GpaChoices, len \in LenChoices :
          LET hva == virtio_map_guest_phys_range(vdev.guest_memmap, gpa, len)
          IN  Done("map_gpa_len",
                   [req |-> "NONE", flags |-> {},
                    payload |-> [gpa |-> gpa, len |-> len, hva |-> hva]],
                   <<>>,
                   [w |-> World, ret |-> IF hva = NULL THEN "NULL" ELSE "hva"])
    /\ UNCHANGED api

NextGpa ==
    \/ VdevInitServer
    \/ VdevUninit
    \/ ServerRead
    \/ ConnClose
    \/ ConnRead(GpaTableMsgs)
    \/ TranslateGpaCall

\* memory tables, and translations of guest-physical ranges on the map
SpecGpa == Init /\ [][NextGpa]_vars

\* the requests that bring queue 0 up, and the one that stops it; the other
\* queues of the device stay unused
KickMsgs ==
    { m \in SetupMsgs \cup { m \in VringMsgs : m.req = "GET_VRING_BASE" } :
        m.req \in {"SET_OWNER", "SET_MEM_TABLE"} \/ m.payload.index = 0 }

\* the guest kicks vring i
GuestKick(i) ==
    /\ api = "initialized"
    /\ i \in DOMAIN vdev.vrings
    /\ vdev.vrings[i].kickfd \in open_fds
    /\ kick' = guest_kick(kick, vdev.vrings[i].kickfd)
    /\ last' = [op |-> "guest_kick", msg |-> NoMsg, fds |-> <<>>, ret |-> "0",
                closed |-> <<>>, sent |-> <<>>, cds |-> <<>>,
                status |-> "0", acked |-> FALSE]
    /\ UNCHANGED <<vdev, open_fds, mappings, vhost_events, rq_events, g_vdevs, api, pc,
                   inflight_file>>

\* the request queue's loop finds a kick event of vring i readable and runs
\* its read callback
KickCallback(i, kick_during) ==
    /\ api = "initialized"
    /\ \E e \in rq_events : e.vring = i /\ e.fd \in kick.signalled
    /\ kick' = vring_io_event(kick, vdev.vrings[i], kick_during).k

VringIoEvent(i) ==
    /\ \E kick_during \in BOOLEAN :
          /\ KickCallback(i, kick_during)
          /\ last' = [op |-> "vring_io_event",
                      msg |-> [req |-> "NONE", flags |-> {}, payload |-> i],
                      fds |-> <<>>,
                      ret |-> vring_io_event(kick, vdev.vrings[i], kick_during).ret,
                      closed |-> <<>>, sent |-> <<>>, cds |-> <<>>,
                      status |-> "0", acked |-> FALSE]
    /\ UNCHANGED <<vdev, open_fds, mappings, vhost_events, rq_events, g_vdevs, api, pc,
                   inflight_file>>

NextKick ==
    \/ VdevInitServer
    \/ ServerRead
    \/ ConnClose
    \/ ConnRead(KickMsgs)
    \/ \E i \in 0 .. (MaxQueues - 1) : GuestKick(i)
    \/ \E i \in 0 .. (MaxQueues - 1) : VringIoEvent(i)

\* a queue is brought up and stopped, the guest kicks it, and the request
\* queue's loop, which the caller runs for as long as the device lives,
\* serves every kick event that stays readable
SpecKick ==
    /\ Init
    /\ [][NextKick]_vars
    /\ \A i \in 0 .. (MaxQueues - 1) :
          WF_kick(\E kick_during \in BOOLEAN : KickCallback(i, kick_during))

\* the requests of a master that negotiates F_PROTOCOL_FEATURES or not and
\* sets up, enables and stops queue 0
EnableMsgs ==
    { m \in CoreMsgs :
        \/ m.req \in {"GET_FEATURES", "SET_FEATURES", "SET_MEM_TABLE"}
        \/ m.req \notin {"SET_OWNER"} /\ m.payload.index = 0 }
    \cup
    { m \in VringMsgs :
        m.req = "SET_VRING_BASE" /\ m.payload.index = 0 /\ m.payload.num = 0 }

NextEnable ==
    \/ VdevInitServer
    \/ ServerRead
    \/ ConnClose
    \/ ConnRead(EnableMsgs)

\* negotiation, and every request that sets up, enables or stops queue 0
SpecEnable == Init /\ [][NextEnable]_vars

\* the connection is readable and the receipt of the request fails: the
\* descriptors sent along are installed unless recvmsg() itself fails
ConnReadFails(msgs) ==
    /\ api = "initialized"
    /\ \E e \in vhost_events : e.ops = "conn"
    /\ \E msg \in msgs, recv \in RecvFailures :
          LET n == IF recv = "recvmsg_fails" THEN 0 ELSE NFds(msg)
          IN  /\ CanOpen(n)
              /\ LET fds == LowestFree(open_fds, n)
                     w0 == [World EXCEPT !.open_fds = @ \cup SeqToSet(fds)]
                 IN  \E nd \in Outcomes(msg) :
                        Done("conn_read", msg, fds,
                             conn_read(w0, msg, fds, [nd EXCEPT !.recv = recv]))
    /\ UNCHANGED api

\* GET_INFLIGHT_FD for several shapes of region, SET_INFLIGHT_FD with the
\* master's inflight file and several sizes
InflightQueues == {0, 1, 2}
InflightQueueSizes == {0, 2}
InflightSizes ==
    { nq * vring_inflight_buf_size(qs) : nq \in InflightQueues, qs \in InflightQueueSizes }

InflightIoMsgs ==
    { [req |-> "GET_INFLIGHT_FD", flags |-> {},
       payload |-> [num_queues |-> nq, queue_size |-> qs,
                    mmap_size |-> 0, mmap_offset |-> 0]] :
        nq \in InflightQueues, qs \in InflightQueueSizes }
    \cup
    { [req |-> "SET_INFLIGHT_FD", flags |-> {},
       payload |-> [num_queues |-> 2, queue_size |-> 2,
                    mmap_size |-> sz, mmap_offset |-> 0]] :
        sz \in InflightSizes }

\* the master, or the backend through the mapping, updates the tracking state
\* in the inflight file: the header of queue 0 and its first descriptor
InflightWritten == 2
InflightWrite ==
    /\ api = "initialized"
    /\ \E i \in DOMAIN inflight_file \cap (1 .. InflightWritten) :
          inflight_file' = [inflight_file EXCEPT ![i].used_idx = 1 - @]
    /\ last' = [op |-> "inflight_write", msg |-> NoMsg, fds |-> <<>>, ret |-> "0",
                closed |-> <<>>, sent |-> <<>>, cds |-> <<>>,
                status |-> "0", acked |-> FALSE]
    /\ UNCHANGED <<vdev, open_fds, mappings, vhost_events, rq_events, g_vdevs, api, pc,
                   kick>>

NextInflight ==
    \/ VdevInitServer
    \/ ServerRead
    \/ ConnClose
    \/ ConnRead(InflightIoMsgs)
    \/ InflightWrite

\* a master that asks for inflight regions and hands them back
SpecInflight == Init /\ [][NextInflight]_vars

\* the requests that set queue 0 up; SET_VRING_ENABLE is taken statement by
\* statement below
RaceMsgs == { m \in EnableMsgs : m.req # "SET_VRING_ENABLE" }

Step(op, i) ==
    [op |-> op, msg |-> [req |-> "SET_VRING_ENABLE", flags |-> {}, payload |-> i],
     fds |-> <<>>, ret |-> "0", closed |-> <<>>, sent |-> <<>>, cds |-> <<>>,
     status |-> "0", acked |-> FALSE]

\* the vhost loop handles SET_VRING_ENABLE(i, 1) for a disabled vring and
\* has attached the kick event
EnableAttach(i) ==
    /\ api = "initialized"
    /\ pc = Idle
    /\ vdev.state = VDEV_CONNECTED
    /\ get_vring(vdev, i) # -1
    /\ ~vdev.vrings[i].is_enabled
    /\ LET r == vring_set_enable_attach(World, i, TRUE)
       IN  /\ r.ret = "0"
           /\ Commit(r.w)
    /\ pc' = [at |-> "attached", vring |-> i]
    /\ last' = Step("vring_set_enable_attach", i)
    /\ UNCHANGED <<api, kick>>

\* ... and goes on to mark the vring enabled and return
EnableMark(i) ==
    /\ pc = [at |-> "attached", vring |-> i]
    /\ Commit(vring_set_enable_mark(World, i))
    /\ pc' = Idle
    /\ last' = Step("vring_set_enable_mark", i)
    /\ UNCHANGED <<api, kick>>

\* the vhost loop handles SET_VRING_ENABLE(i, 0) for an enabled vring and
\* has detached the kick event
DisableDetach(i) ==
    /\ api = "initialized"
    /\ pc = Idle
    /\ vdev.state = VDEV_CONNECTED
    /\ get_vring(vdev, i) # -1
    /\ vdev.vrings[i].is_enabled
    /\ Commit(vring_set_disable_detach(World, i))
    /\ pc' = [at |-> "detached", vring |-> i]
    /\ last' = Step("vring_set_disable_detach", i)
    /\ UNCHANGED <<api, kick>>

\* ... and goes on to mark the vring disabled and return
DisableMark(i) ==
    /\ pc = [at |-> "detached", vring |-> i]
    /\ Commit(vring_set_disable_mark(World, i))
    /\ pc' = Idle
    /\ last' = Step("vring_set_disable_mark", i)
    /\ UNCHANGED <<api, kick>>

NextRace ==
    \/ VdevInitServer
    \/ ServerRead
    \/ ConnClose
    \/ ConnRead(RaceMsgs)
    \/ \E i \in 0 .. (MaxQueues - 1) : EnableAttach(i)
    \/ \E i \in 0 .. (MaxQueues - 1) : EnableMark(i)
    \/ \E i \in 0 .. (MaxQueues - 1) : DisableDetach(i)
    \/ \E i \in 0 .. (MaxQueues - 1) : DisableMark(i)
    \/ \E i \in 0 .. (MaxQueues - 1) : GuestKick(i)
    \/ \E i \in 0 .. (MaxQueues - 1) : VringIoEvent(i)

\* the vhost loop enabling and disabling queue 0 statement by statement,
\* while the guest kicks and the request queue's loop runs the callback
SpecRace == Init /\ [][NextRace]_vars

\* the requests that negotiate, set up, enable and stop queue 0, and the
\* setters of ring size, base and addresses for queue 0 and for an index out
\* of range, with every address choice
SetterMsgs ==
    { m \in EnableMsgs : m.req \notin {"GET_FEATURES", "SET_VRING_CALL", "GET_VRING_BASE"} }
    \cup { m \in VringMsgs :
             /\ m.req \in {"SET_VRING_NUM", "SET_VRING_BASE", "SET_VRING_ADDR"}
             /\ m.payload.index \in {0, MaxQueues} }

NextSetters ==
    \/ VdevInitServer
    \/ ServerRead
    \/ ConnClose
    \/ ConnRead(SetterMsgs)

SpecSetters == Init /\ [][NextSetters]_vars

\* negotiation, the requests that set up, enable and stop queue 0, and a
\* non-zero base for it
BaseMsgs ==
    { m \in EnableMsgs : m.req \notin {"GET_FEATURES", "SET_VRING_CALL"} }
    \cup { m \in VringMsgs :
             m.req = "SET_VRING_BASE" /\ m.payload.index = 0 /\ m.payload.num = 1 }

NextBase ==
    \/ VdevInitServer
    \/ ServerRead
    \/ ConnClose
    \/ ConnRead(BaseMsgs)

\* a master that starts queue 0 at some base and asks for the base back
SpecBase == Init /\ [][NextBase]_vars

\* the requests that bring queue 0 up in legacy mode; GET_VRING_BASE is taken
\* statement by statement below
QuiesceMsgs == { m \in KickMsgs : m.req # "GET_VRING_BASE" }

\* the request queue's loop runs the kick callback of the enabled vring i,
\* and the dispatch takes one available descriptor
VringIoEventServes(i) ==
    /\ api = "initialized"
    /\ i \in DOMAIN vdev.vrings
    /\ \E e \in rq_events : e.vring = i /\ e.fd \in kick.signalled
    /\ vdev.vrings[i].is_enabled
    /\ vdev.vrings[i].vq.last_avail < vdev.vrings[i].client_info.base + MaxAvail
    /\ kick' = vring_io_event(kick, vdev.vrings[i], FALSE).k
    /\ vdev' = [vdev EXCEPT !.vrings[i].vq = virtq_dequeue(@)]
    /\ last' = [op |-> "vring_io_event",
                msg |-> [req |-> "NONE", flags |-> {}, payload |-> i],
                fds |-> <<>>, ret |-> "0", closed |-> <<>>, sent |-> <<>>,
                cds |-> <<>>, status |-> "0", acked |-> FALSE]
    /\ UNCHANGED <<open_fds, mappings, vhost_events, rq_events, g_vdevs, api, pc,
                   inflight_file>>

GetBaseMsg(i) ==
    [req |-> "GET_VRING_BASE", flags |-> {}, payload |-> [index |-> i, num |-> 0]]

\* the vhost loop handles GET_VRING_BASE(i) in legacy mode and has read
\* vq.last_avail (vdev.c:677)
GetBaseRead(i) ==
    /\ api = "initialized"
    /\ pc = Idle
    /\ vdev.state = VDEV_CONNECTED
    /\ get_vring(vdev, i) # -1
    /\ ~has_feature(vdev.negotiated_features, F_PROTOCOL_FEATURES)
    /\ pc' = [at |-> "base_read", vring |-> i, base |-> vdev.vrings[i].vq.last_avail]
    /\ last' = [op |-> "get_vring_base_read", msg |-> GetBaseMsg(i), fds |-> <<>>,
                ret |-> "0", closed |-> <<>>, sent |-> <<>>, cds |-> <<>>,
                status |-> "0", acked |-> FALSE]
    /\ UNCHANGED <<vdev, open_fds, mappings, vhost_events, rq_events, g_vdevs, api,
                   inflight_file, kick>>

\* ... and goes on to stop the vring and send the base it has read
\* (vdev.c:682-690)
GetBaseStop(i) ==
    /\ pc.at = "base_read"
    /\ pc.vring = i
    /\ \E reply_ok \in BOOLEAN :
          LET w1 == vring_set_enable(World, i, FALSE, TRUE).w
              r == vhost_send_reply(w1, GetBaseMsg(i), pc.base, reply_ok)
          IN  /\ Commit(r.w)
              /\ last' = [op |-> "conn_read", msg |-> GetBaseMsg(i), fds |-> <<>>,
                          ret |-> r.ret, closed |-> r.w.closed, sent |-> r.w.sent,
                          cds |-> <<>>, status |-> r.ret, acked |-> FALSE]
    /\ pc' = Idle
    /\ UNCHANGED <<api, kick>>

NextQuiesce ==
    \/ VdevInitServer
    \/ ServerRead
    \/ ConnClose
    \/ ConnRead(QuiesceMsgs)
    \/ \E i \in 0 .. (MaxQueues - 1) : GetBaseRead(i)
    \/ \E i \in 0 .. (MaxQueues - 1) : GetBaseStop(i)
    \/ \E i \in 0 .. (MaxQueues - 1) : GuestKick(i)
    \/ \E i \in 0 .. (MaxQueues - 1) : VringIoEventServes(i)

\* the vhost loop stopping queue 0 with GET_VRING_BASE statement by
\* statement, while the guest kicks and the request queue's loop serves
SpecQuiesce == Init /\ [][NextQuiesce]_vars

NextRevoke ==
    \/ VdevInitServer
    \/ ServerRead
    \/ ConnClose
    \/ ConnRead(SetupMsgs \cup MemTableMsgs)

\* a master that brings a queue up and then changes the memory table
SpecRevoke == Init /\ [][NextRevoke]_vars

NextFrame ==
    \/ VdevInitServer
    \/ ServerRead
    \/ ConnClose
    \/ ConnRead(SetupMsgs)
    \/ ConnReadFails(SetupMsgs)

\* a connection on which requests arrive whole or broken
SpecFrame == Init /\ [][NextFrame]_vars

NextProto ==
    \/ VdevInitServer
    \/ VdevUninit
    \/ ServerRead
    \/ ConnClose
    \/ ConnRead(ProtoMsgs)

\* the device with a master that sends every kind of request
SpecProto == Init /\ [][NextProto]_vars

\* a direct call of map_guest_region on the device's memory map
MapGuestRegionCall ==
    /\ api = "initialized"
    /\ vdev.state = VDEV_CONNECTED
    /\ CanOpen(1)
    /\ \E index \in (0 .. (MaxRegionsSent - 1)) \cup {VHOST_USER_MEM_REGIONS_MAX},
          reg \in RegionChoices, mmap_ok \in BOOLEAN :
          LET fds == LowestFree(open_fds, 1)
              w0 == [World EXCEPT !.open_fds = @ \cup SeqToSet(fds)]
          IN  Done("map_guest_region",
                   [req |-> "NONE", flags |-> {},
                    payload |-> [index |-> index, region |-> reg]],
                   fds,
                   map_guest_region(w0, index, reg.guest_addr, reg.user_addr,
                                    reg.size, reg.mmap_offset, fds[1], mmap_ok))
    /\ UNCHANGED api

\* memory tables, and map_guest_region on every index and region
SpecMap == Init /\ [][NextMem \/ MapGuestRegionCall]_vars

\* the device inside vhd_vdev_init_server, at vdev.c:1282
InitCDS ==
    LET w0 == [vdev |-> ZeroVdev, open_fds |-> {}, mappings |-> {},
               vhost_events |-> {}, rq_events |-> {}, g_vdevs |-> {},
               inflight_file |-> <<>>, closed |-> <<>>, sent |-> <<>>, cds |-> <<>>,
               status |-> "0", acked |-> FALSE]
        w == vdev_construct(w0, MaxQueues, Min(Fds))
    IN  /\ vdev = w.vdev
        /\ open_fds = w.open_fds
        /\ mappings = {}
        /\ vhost_events = {}
        /\ rq_events = {}
        /\ g_vdevs = w.g_vdevs
        /\ api = "initialized"
        /\ inflight_file = <<>>
        /\ kick = NoKicks
        /\ pc = Idle
        /\ last = [op |-> "none", msg |-> NoMsg, fds |-> <<>>, ret |-> "0",
                   closed |-> <<>>, sent |-> <<>>, cds |-> <<>>,
                   status |-> "0", acked |-> FALSE]

\* a direct call of change_device_state, for any requested state
ChangeDeviceStateCall ==
    /\ api = "initialized"
    /\ \E new_state \in VdevStates, add_ok \in BOOLEAN :
          Done("change_device_state", NoMsg, <<>>,
               change_device_state(World, new_state, add_ok))
    /\ UNCHANGED api

NextCDS ==
    \/ ChangeDeviceStateCall
    \/ ServerRead
    \/ ConnClose
    \/ ConnRead(SetupMsgs)

\* change_device_state called in every state, for every requested state
SpecCDS == InitCDS /\ [][NextCDS]_vars

----------------------------------------------------------------------------
(* Properties of the connection state machine *)

PermittedTransitions ==
    { <<VDEV_INITIALIZED, VDEV_LISTENING>>,
      <<VDEV_LISTENING, VDEV_CONNECTED>>,
      <<VDEV_CONNECTED, VDEV_LISTENING>> }

ListenRegistered ==
    \E e \in vhost_events : e.fd = vdev.listenfd /\ e.ops = "server"

ConnRegistered == \E e \in vhost_events : e.ops = "conn"

LiveRegions ==
    { i \in DOMAIN vdev.guest_memmap : is_region_mapped(vdev.guest_memmap[i]) }

\* C1: whatever state change_device_state finds and whatever state it is asked
\* for, it returns 0 only for INITIALIZED->LISTENING, LISTENING->CONNECTED and
\* CONNECTED->LISTENING (and the device is then in the requested state); for
\* every other pair it returns an error, the state is the one it found and the
\* call changed nothing at all.
C1_OnlyPermittedTransitions ==
    last.cds # <<>> =>
        LET from == last.cds[1]
            to == last.cds[2]
            ret == last.cds[3]
            untouched == last.cds[4]
        IN  /\ ret = "0" => <<from, to>> \in PermittedTransitions /\ vdev.state = to
            /\ <<from, to>> \notin PermittedTransitions =>
                  ret # "0" /\ vdev.state = from /\ untouched

\* a refused pair: CONNECTED was asked for on a connected device
C1_Witness ==
    /\ last.op = "change_device_state"
    /\ last.cds = <<VDEV_CONNECTED, VDEV_CONNECTED, "-EINVAL", TRUE>>
    /\ ConnRegistered

\* C2: an initialised device holds an open connection descriptor exactly when
\* its state is CONNECTED.
C2_ConnfdOpenIffConnected ==
    api = "initialized" =>
        ((vdev.connfd \in open_fds) <=> vdev.state = VDEV_CONNECTED)

\* C3: between init_server and uninit, listenfd is registered with the vhost
\* event loop exactly when the state is LISTENING.
C3_ListenfdRegisteredIffListening ==
    api = "initialized" => (ListenRegistered <=> vdev.state = VDEV_LISTENING)

\* a connection was closed and listenfd could not be registered again: the
\* device is not LISTENING and listenfd is not registered
C3_Witness ==
    /\ api = "initialized"
    /\ last.op = "conn_close"
    /\ last.ret # "0"
    /\ vdev.state = VDEV_CONNECTED
    /\ ~ListenRegistered

\* C4: a vring is enabled only on a CONNECTED device whose is_owned is true.
C4_EnabledOnlyWhenOwned ==
    \A i \in DOMAIN vdev.vrings :
        vdev.vrings[i].is_enabled =>
            vdev.state = VDEV_CONNECTED /\ vdev.is_owned

\* C5: after every handler, a vring is enabled exactly when its current kickfd
\* is an event source of the request queue's loop, bound to that vring.
C5_EnabledIffKickfdRegistered ==
    api = "initialized" =>
        \A i \in DOMAIN vdev.vrings :
            vdev.vrings[i].is_enabled <=>
                (\E e \in rq_events :
                    e.fd = vdev.vrings[i].kickfd /\ e.vring = i)

\* C6: when the close event fires on a connection and listenfd is registered
\* again, the device is LISTENING, the connection's descriptor is unregistered
\* and closed, no region is mapped (and no mapping is left), every vring is
\* disabled, is_owned is false and listenfd is registered.
C6_CloseTearsDown ==
    (last.op = "conn_close" /\ last.ret = "0") =>
        /\ vdev.state = VDEV_LISTENING
        /\ ~ConnRegistered
        /\ vdev.connfd = -1
        /\ Len(last.closed) > 0
        /\ last.closed[Len(last.closed)] \notin open_fds
        /\ \A e \in vhost_events : e.fd # last.closed[Len(last.closed)]
        /\ LiveRegions = {}
        /\ mappings = {}
        /\ \A i \in DOMAIN vdev.vrings : ~vdev.vrings[i].is_enabled
        /\ ~vdev.is_owned
        /\ ListenRegistered

\* the connection that was closed had a region mapped (its descriptor was
\* closed before connfd) and a queue that had been attached
C6_Witness ==
    /\ last.op = "conn_close"
    /\ last.ret = "0"
    /\ Len(last.closed) >= 2
    /\ \E i \in DOMAIN vdev.vrings : vdev.vrings[i].vq.desc # NULL

\* the state of a device that belongs to one connection
ConnectionState(vd) ==
    [guest_memmap |-> vd.guest_memmap,
     is_owned |-> vd.is_owned,
     negotiated_features |-> vd.negotiated_features,
     negotiated_protocol_features |-> vd.negotiated_protocol_features,
     vrings |-> [i \in DOMAIN vd.vrings |->
                   [is_enabled |-> vd.vrings[i].is_enabled,
                    client_info |-> vd.vrings[i].client_info,
                    kickfd |-> vd.vrings[i].kickfd,
                    callfd |-> vd.vrings[i].callfd,
                    errfd |-> vd.vrings[i].errfd]]]

\* what the first connection of a device finds: the device as
\* vhd_vdev_init_server built it
FreshDevice ==
    vdev_construct(
        [vdev |-> ZeroVdev, open_fds |-> {}, mappings |-> {}, vhost_events |-> {},
         rq_events |-> {}, g_vdevs |-> {}, closed |-> <<>>, sent |-> <<>>,
         cds |-> <<>>, status |-> "0", acked |-> FALSE],
        MaxQueues, Min(Fds)).vdev

\* C7: every accepted connection starts with the per-connection state of the
\* first connection of a freshly initialised device.
C7_CleanSlateOnAccept ==
    (last.op = "server_read" /\ last.ret = "0") =>
        ConnectionState(vdev) = ConnectionState(FreshDevice)

----------------------------------------------------------------------------
(* Properties of the guest memory map *)

IsSetMemTable(l) == l.op = "conn_read" /\ l.msg.req = "SET_MEM_TABLE"

\* C8: after a successful SET_MEM_TABLE naming n regions, exactly n regions
\* of the memory map are live.
C8_ExactlyNRegionsLive ==
    (IsSetMemTable(last) /\ last.ret = "0") =>
        Cardinality(LiveRegions) = last.msg.payload.nregions

Aligned(reg) == reg.size % PAGE_SIZE = 0 /\ reg.mmap_offset % PAGE_SIZE = 0

\* a call of map_guest_region on an occupied slot: same (gpa, pages) gives 0,
\* the incoming descriptor closed once and nothing else changed; another
\* (gpa, pages) gives EBUSY and the map as it was
MapAtOccupiedStep(aligned_only) ==
    last'.op = "map_guest_region" =>
        LET index == last'.msg.payload.index
            reg == last'.msg.payload.region
            fd == last'.fds[1]
        IN  (/\ index < VHOST_USER_MEM_REGIONS_MAX
             /\ is_region_mapped(vdev.guest_memmap[index])
             /\ aligned_only => Aligned(reg)) =>
                IF /\ vdev.guest_memmap[index].gpa = reg.guest_addr
                   /\ vdev.guest_memmap[index].pages * PAGE_SIZE = reg.size
                THEN /\ last'.ret = "0"
                     /\ last'.closed = <<fd>>
                     /\ fd \notin open_fds'
                     /\ vdev' = vdev
                     /\ mappings' = mappings
                ELSE /\ last'.ret = "EBUSY"
                     /\ vdev' = vdev
                     /\ mappings' = mappings

\* a SET_MEM_TABLE followed by the same SET_MEM_TABLE: the map and the open
\* descriptors stay as the first one left them
RepeatedMemTableStep(succeeded_only) ==
    (/\ IsSetMemTable(last)
     /\ IsSetMemTable(last')
     /\ last'.msg = last.msg
     /\ succeeded_only => last.ret = "0") =>
        /\ vdev'.guest_memmap = vdev.guest_memmap
        /\ mappings' = mappings
        /\ open_fds' = open_fds
        /\ succeeded_only => last'.ret = "0"

\* C9, as stated: mapping at an occupied index with the stored (gpa, pages)
\* succeeds, closes the incoming fd and leaves the region unchanged, another
\* (gpa, pages) fails with EBUSY; repeating an identical SET_MEM_TABLE leaves
\* the map and the open descriptors as after the first one.
C9_AsStated ==
    [][MapAtOccupiedStep(FALSE) /\ RepeatedMemTableStep(FALSE)]_vars

\* C9, amended: the same for a region whose size and offset are page-aligned
\* (the alignment checks come first and give EINVAL), and for a SET_MEM_TABLE
\* that succeeded the first time.
C9_IdempotentMap ==
    [][MapAtOccupiedStep(TRUE) /\ RepeatedMemTableStep(TRUE)]_vars

\* an aligned region was mapped again on its slot: 0, and the incoming
\* descriptor is the one descriptor closed
C9_Witness ==
    /\ last.op = "map_guest_region"
    /\ last.ret = "0"
    /\ last.closed = last.fds
    /\ is_region_mapped(vdev.guest_memmap[last.msg.payload.index])

\* C10: a SET_MEM_TABLE with more than 8 regions returns EINVAL; one with at
\* most 8 regions that fails on some region returns that region's error, leaves
\* no region live and no mapping, and every descriptor that came with the
\* message has been closed exactly once and is not open.
C10_RollbackOnFailure ==
    IsSetMemTable(last) =>
        /\ last.msg.payload.nregions > VHOST_USER_MEM_REGIONS_MAX =>
              last.ret = "EINVAL"
        /\ (/\ last.msg.payload.nregions <= VHOST_USER_MEM_REGIONS_MAX
            /\ last.ret # "0") =>
              /\ last.ret \in {"EINVAL", "EBUSY", "ENOMEM"}
              /\ LiveRegions = {}
              /\ mappings = {}
              /\ \A k \in 1 .. Len(last.fds) :
                    /\ Count(last.closed, last.fds[k]) = 1
                    /\ last.fds[k] \notin open_fds

\* the second of two regions could not be mapped: the first had been mapped
\* (its descriptor went with unmap_all, after the second one's)
C10_Witness ==
    /\ IsSetMemTable(last)
    /\ last.ret = "ENOMEM"
    /\ Len(last.fds) = 2
    /\ last.closed = <<last.fds[2], last.fds[1]>>

----------------------------------------------------------------------------
(* Properties of the protocol handlers *)

IsRequest(l, req) == l.op = "conn_read" /\ l.msg.req = req

\* C11: in every state negotiated_features is within supported_features and
\* negotiated_protocol_features within supported_protocol_features; after
\* SET_FEATURES(x) negotiated_features is x AND supported_features, after
\* SET_PROTOCOL_FEATURES(x) negotiated_protocol_features is x AND
\* supported_protocol_features.
C11_NegotiatedWithinSupported ==
    /\ vdev.negotiated_features \subseteq vdev.supported_features
    /\ vdev.negotiated_protocol_features \subseteq vdev.supported_protocol_features
    /\ IsRequest(last, "SET_FEATURES") =>
          vdev.negotiated_features = last.msg.payload \cap vdev.supported_features
    /\ IsRequest(last, "SET_PROTOCOL_FEATURES") =>
          vdev.negotiated_protocol_features =
              last.msg.payload \cap vdev.supported_protocol_features

\* the master asked for a feature the device does not support, and got the
\* supported part of its request
C11_Witness ==
    /\ IsRequest(last, "SET_FEATURES")
    /\ ~(last.msg.payload \subseteq vdev.supported_features)
    /\ vdev.negotiated_features # {}

\* the live regions that cover all of [gpa, gpa + len)
CoveringRegions(memmap, gpa, len) ==
    { i \in DOMAIN memmap :
        /\ is_region_mapped(memmap[i])
        /\ memmap[i].gpa <= gpa
        /\ gpa + len <= memmap[i].gpa + region_size_bytes(memmap[i]) }

\* C12: for every memory map and every (gpa, len), the translation is
\* non-null exactly when len > 0 and some live region covers all of
\* [gpa, gpa + len), and a non-null result is that region's hva plus
\* (gpa - region.gpa).
C12_TranslateIffCovered ==
    last.op = "map_gpa_len" =>
        LET gpa == last.msg.payload.gpa
            len == last.msg.payload.len
            hva == last.msg.payload.hva
            covering == CoveringRegions(vdev.guest_memmap, gpa, len)
        IN  /\ (hva # NULL) <=> (len > 0 /\ covering # {})
            /\ hva # NULL =>
                  \E i \in covering :
                      hva = vdev.guest_memmap[i].hva + (gpa - vdev.guest_memmap[i].gpa)

\* the opcodes that are answered with a reply of their own
Getters ==
    {"GET_FEATURES", "GET_PROTOCOL_FEATURES", "GET_CONFIG", "GET_QUEUE_NUM",
     "GET_VRING_BASE", "GET_INFLIGHT_FD"}

\* the messages of a step that are not the ack of the dispatcher
ExplicitReplies(l) == Len(l.sent) - (IF l.acked THEN 1 ELSE 0)

\* C13: for every request (whose sends did not fail), the slave emits an
\* explicit, non-ack reply if and only if the opcode is one of GET_FEATURES,
\* GET_PROTOCOL_FEATURES, GET_CONFIG, GET_QUEUE_NUM, GET_VRING_BASE,
\* GET_INFLIGHT_FD.
C13_ExplicitReplyIffGetter ==
    (last.op = "conn_read" /\ last.ret # "-EPIPE") =>
        (ExplicitReplies(last) > 0 <=> last.msg.req \in Getters)

\* C14: for every request, whatever its opcode, flags and handler result,
\* the slave sends at most one message back to the master; a getter whose
\* explicit reply was sent is not acked in addition.
C14_AtMostOneMessage ==
    last.op = "conn_read" =>
        /\ Len(last.sent) <= 1
        /\ ExplicitReplies(last) > 0 => ~last.acked

\* a flagged getter, with REPLY_ACK negotiated, replied and was not acked
C14_Witness ==
    /\ last.op = "conn_read"
    /\ last.msg.req \in Getters
    /\ "REPLY_ACK" \in last.msg.flags
    /\ has_feature(vdev.negotiated_protocol_features, F_REPLY_ACK)
    /\ Len(last.sent) = 1
    /\ ~last.acked

\* C15: a setter request (whose send did not fail) is answered with a u64
\* ack carrying the handler's status, 0 on success and the errno otherwise,
\* if and only if REPLY_ACK is negotiated when the handler has returned and
\* the message has the REPLY_ACK flag; otherwise nothing is sent.
C15_SetterAckedIffNegotiatedAndFlagged ==
    (last.op = "conn_read" /\ last.msg.req \notin Getters /\ last.ret # "-EPIPE") =>
        /\ last.acked <=>
              /\ has_feature(vdev.negotiated_protocol_features, F_REPLY_ACK)
              /\ "REPLY_ACK" \in last.msg.flags
        /\ last.acked =>
              last.sent = << [req |-> last.msg.req, flags |-> {"REPLY"},
                              payload |-> last.status] >>
        /\ ~last.acked => last.sent = <<>>

\* SET_VRING_NUM with an out-of-range index and the flag is acked with EINVAL
C15_Witness ==
    /\ IsRequest(last, "SET_VRING_NUM")
    /\ last.msg.payload.index >= vdev.max_queues
    /\ last.acked
    /\ last.sent[1].payload = "EINVAL"

\* the opcodes outside the handler table
Unsupported == Unimplemented \cup {"NONE", "UNDEFINED_OPCODE"}

\* a step that handles an unsupported opcode yields the status, reports it
\* through the ack when REPLY_ACK is negotiated and flagged (and the send
\* does not fail), and leaves the device as it was, CONNECTED
UnsupportedStep(status) ==
    /\ last'.status = status
    /\ (/\ has_feature(vdev.negotiated_protocol_features, F_REPLY_ACK)
        /\ "REPLY_ACK" \in last'.msg.flags
        /\ last'.ret # "-EPIPE") =>
          last'.sent = << [req |-> last'.msg.req, flags |-> {"REPLY"},
                           payload |-> status] >>
    /\ vdev' = vdev
    /\ vdev'.state = VDEV_CONNECTED
    /\ mappings' = mappings
    /\ open_fds' = open_fds
    /\ vhost_events' = vhost_events
    /\ rq_events' = rq_events

----------------------------------------------------------------------------
(* Properties of the kick path *)

\* vring i is enabled, its kick event is registered, and a kick on it has
\* not been followed by the start of a dispatch
KickPending(i) ==
    /\ api = "initialized"
    /\ i \in DOMAIN vdev.vrings
    /\ vdev.vrings[i].is_enabled
    /\ \E e \in rq_events : e.fd = vdev.vrings[i].kickfd /\ e.vring = i
    /\ vdev.vrings[i].kickfd \in kick.unserved

----------------------------------------------------------------------------
(* Properties of the vring handlers *)

\* num, the ring addresses and callfd of the vring are set
RingConfigured(vring) ==
    /\ vring.client_info.num > 0
    /\ vring.client_info.desc_addr # NULL
    /\ vring.client_info.avail_addr # NULL
    /\ vring.client_info.used_addr # NULL
    /\ vring.callfd # -1

\* the step handles SET_VRING_KICK(i, kickfd) without an error, on a device
\* without F_PROTOCOL_FEATURES whose vring i is configured
LegacyKickStep(i) ==
    /\ IsRequest(last', "SET_VRING_KICK")
    /\ last'.msg.payload.index = i
    /\ last'.ret = "0"
    /\ vdev.state = VDEV_CONNECTED
    /\ i \in DOMAIN vdev.vrings
    /\ ~has_feature(vdev.negotiated_features, F_PROTOCOL_FEATURES)
    /\ RingConfigured(vdev.vrings[i])

\* vring i is enabled, kickfd is registered on the request queue's loop for
\* it, and callfd is the notify target of the virtqueue
EnabledOn(i, kickfd, callfd) ==
    /\ vdev'.vrings[i].is_enabled
    /\ vdev'.vrings[i].kickfd = kickfd
    /\ \E e \in rq_events' : e.fd = kickfd /\ e.vring = i
    /\ vdev'.vrings[i].vq.attached
    /\ vdev'.vrings[i].vq.notify_fd = callfd

\* C18: when F_PROTOCOL_FEATURES is not negotiated and vring i has num, base,
\* addresses and callfd set, a SET_VRING_KICK(i, kickfd) leaves vring i
\* enabled, with kickfd registered on the request queue's loop and callfd
\* installed as the virtqueue's notify target.
C18_LegacyKickEnables ==
    [][ \A i \in 0 .. (MaxQueues - 1) :
            LegacyKickStep(i) =>
                EnabledOn(i, last'.fds[1], vdev.vrings[i].callfd) ]_vars

\* vring i goes from disabled to enabled in the step
BecomesEnabled(i) ==
    /\ i \in DOMAIN vdev.vrings
    /\ i \in DOMAIN vdev'.vrings
    /\ ~vdev.vrings[i].is_enabled
    /\ vdev'.vrings[i].is_enabled

\* C19: when F_PROTOCOL_FEATURES is negotiated, a vring goes from disabled to
\* enabled only in the handler of a SET_VRING_ENABLE message for it with
\* enable payload 1; SET_VRING_NUM, SET_VRING_BASE, SET_VRING_ADDR,
\* SET_VRING_CALL and SET_VRING_KICK never enable it.
C19_OnlyExplicitEnable ==
    [][ \A i \in 0 .. (MaxQueues - 1) :
            (has_feature(vdev.negotiated_features, F_PROTOCOL_FEATURES)
             /\ BecomesEnabled(i)) =>
                /\ IsRequest(last', "SET_VRING_ENABLE")
                /\ last'.msg.payload.index = i
                /\ last'.msg.payload.num = 1 ]_vars

\* with F_PROTOCOL_FEATURES negotiated a SET_VRING_ENABLE(i, 1) succeeded and
\* vring i is enabled on its kickfd
C19_Witness ==
    /\ IsRequest(last, "SET_VRING_ENABLE")
    /\ last.msg.payload.num = 1
    /\ last.ret = "0"
    /\ has_feature(vdev.negotiated_features, F_PROTOCOL_FEATURES)
    /\ vdev.vrings[last.msg.payload.index].is_enabled
    /\ \E e \in rq_events : /\ e.fd = vdev.vrings[last.msg.payload.index].kickfd
                            /\ e.vring = last.msg.payload.index

----------------------------------------------------------------------------
(* Properties of the teardown *)

\* C20: after vdev_uninit of a device in any reachable state, the inflight
\* region is released, no guest memory region is live, every vring is
\* disabled, none of the device's descriptors (listenfd, connfd) is still
\* registered with the vhost event loop, listenfd is closed and the device
\* is no longer in the registry.
C20_UninitTearsDown ==
    last.op = "uninit" =>
        /\ vdev.inflight_mem = NULL
        /\ LiveRegions = {}
        /\ mappings = {}
        /\ \A i \in DOMAIN vdev.vrings : ~vdev.vrings[i].is_enabled
        /\ \A e \in vhost_events : e.fd \notin {vdev.listenfd, vdev.connfd}
        /\ vdev.listenfd \in SeqToSet(last.closed)
        /\ vdev.listenfd \notin open_fds
        /\ "vdev" \notin g_vdevs

----------------------------------------------------------------------------
(* Properties of the receipt of messages *)

\* the step is a conn_read whose message was cut short: net_recv_msg is the
\* only source of -EIO
FramingErrorStep == last'.op = "conn_read" /\ last'.ret = "-EIO"

\* C21: when receiving a message fails with a framing error (fewer than 12
\* header bytes, or fewer payload bytes than size), no handler runs for that
\* message and the connection is dropped: the device goes from CONNECTED to
\* LISTENING.
C21_FramingErrorDropsConnection ==
    [][ FramingErrorStep =>
            /\ last'.sent = <<>>
            /\ vdev'.vrings = vdev.vrings
            /\ vdev'.guest_memmap = vdev.guest_memmap
            /\ vdev'.negotiated_features = vdev.negotiated_features
            /\ vdev.state = VDEV_CONNECTED
            /\ vdev'.state = VDEV_LISTENING ]_vars

----------------------------------------------------------------------------
(* Properties of the inflight region *)

\* the region GET_INFLIGHT_FD(queue_size, num_queues) has to hand out
InflightPerQueue(idesc) == InflightRegionSize + idesc.queue_size * InflightDescSize
InflightTotal(idesc) == idesc.num_queues * InflightPerQueue(idesc)

ExpectedInflight(idesc) ==
    [i \in 1 .. (InflightTotal(idesc) \div InflightRegionSize) |->
        IF ((i - 1) * InflightRegionSize) % InflightPerQueue(idesc) = 0
        THEN [features |-> 0, version |-> 1, desc_num |-> idesc.queue_size,
              last_batch_head |-> 0, used_idx |-> 0]
        ELSE ZeroSlot]

\* the mapping of the device's inflight region in a state
InflightMapping(vd) == [addr |-> vd.inflight_mem, len |-> vd.inflight_size]

\* C22: a successful GET_INFLIGHT_FD(queue_size, num_queues) first releases
\* any prior inflight region, then installs a region of size num_queues x
\* (header size + queue_size x desc size) that is all zero except that the
\* header of every queue q < num_queues, at offset q x per-queue size, has
\* version = 1 and desc_num = queue_size; the reply carries mmap_size = total,
\* mmap_offset = 0 and the new fd.
C22_GetInflightInstallsFreshRegion ==
    [][ (IsRequest(last', "GET_INFLIGHT_FD") /\ last'.status = "0") =>
            LET idesc == last'.msg.payload
                total == InflightTotal(idesc)
            IN  /\ vdev.inflightfd # -1 =>
                      /\ vdev.inflightfd \in SeqToSet(last'.closed)
                      /\ mappings' =
                            (mappings \ {InflightMapping(vdev)})
                                \cup {InflightMapping(vdev')}
                /\ vdev'.inflight_size = total
                /\ vdev'.inflight_mem # NULL
                /\ InflightMapping(vdev') \in mappings'
                /\ vdev'.inflightfd \in open_fds'
                /\ inflight_file' = ExpectedInflight(idesc)
                /\ last'.sent =
                      << [req |-> "GET_INFLIGHT_FD", flags |-> {"REPLY"},
                          payload |-> [idesc EXCEPT !.mmap_size = total,
                                                    !.mmap_offset = 0],
                          fds |-> <<vdev'.inflightfd>>] >> ]_vars

\* a second GET_INFLIGHT_FD, for two queues of two descriptors, succeeded
\* and the region of the first one was released
C22_Witness ==
    /\ IsRequest(last, "GET_INFLIGHT_FD")
    /\ last.status = "0"
    /\ last.msg.payload.num_queues = 2
    /\ last.msg.payload.queue_size = 2
    /\ Len(last.closed) = 1
    /\ Len(inflight_file) = 6
    /\ inflight_file[4].version = 1

\* a step of the handler of msg fails under the outcomes nd
InflightStepFails(msg, nd) ==
    IF msg.req = "GET_INFLIGHT_FD"
    THEN ~nd.memfd_ok \/ ~nd.trunc_ok \/ ~nd.inflight_mmap_ok \/ ~nd.reply_ok
    ELSE ~nd.inflight_mmap_ok

inflight_handler(w, msg, fds, nd) ==
    IF msg.req = "GET_INFLIGHT_FD" THEN vhost_get_inflight_fd(w, msg, fds, nd)
    ELSE vhost_set_inflight_fd(w, msg, fds, nd)

\* C23: if any step of GET_INFLIGHT_FD or SET_INFLIGHT_FD fails (file
\* creation, sizing, mapping, or sending the reply), the handler returns an
\* error, the fd created or received is closed, and the device has no
\* inflight region afterwards (inflightfd = -1, inflight_mem = NULL).
C23_InflightFailureLeavesNoRegion ==
    (api = "initialized" /\ vdev.state = VDEV_CONNECTED) =>
        \A msg \in InflightIoMsgs :
            CanOpen(NFds(msg)) =>
                LET fds == LowestFree(open_fds, NFds(msg))
                    w0 == [World EXCEPT !.open_fds = @ \cup SeqToSet(fds)]
                IN  \A nd \in Outcomes(msg) :
                        LET r == inflight_handler(w0, msg, fds, nd)
                        IN  /\ InflightStepFails(msg, nd) => r.ret # "0"
                            /\ r.ret # "0" =>
                                  /\ r.w.vdev.inflightfd = -1
                                  /\ r.w.vdev.inflight_mem = NULL
                                  /\ r.w.open_fds = open_fds \ {vdev.inflightfd}
                                  /\ r.w.mappings = mappings \ {InflightMapping(vdev)}

\* a GET_INFLIGHT_FD failed after its file was created (the prior region's
\* fd and the new fd were both closed), and the device has no region
C23_Witness ==
    /\ IsRequest(last, "GET_INFLIGHT_FD")
    /\ last.status # "0"
    /\ Len(last.closed) = 2
    /\ vdev.inflightfd = -1
    /\ vdev.inflight_mem = NULL

\* the bytes the device reads through its MAP_SHARED mapping of the file
InflightRegion(vd, file) ==
    IF vd.inflight_mem = NULL THEN <<>>
    ELSE [i \in 1 .. (vd.inflight_size \div InflightRegionSize) |->
             IF i \in DOMAIN file THEN file[i] ELSE ZeroSlot]

\* C24: after a completed GET_INFLIGHT_FD, a SET_INFLIGHT_FD passing the same
\* file with the replied mmap_size installs an inflight region whose contents
\* equal the contents of the file at that moment: SET_INFLIGHT_FD does not
\* zero or re-initialise the region.
C24_SetInflightKeepsContents ==
    [][ ( /\ IsRequest(last', "SET_INFLIGHT_FD")
          /\ last'.status = "0"
          /\ inflight_file # <<>>
          /\ last'.msg.payload.mmap_size = Len(inflight_file) * InflightRegionSize ) =>
            /\ vdev'.inflightfd = last'.fds[1]
            /\ vdev'.inflightfd \in open_fds'
            /\ vdev'.inflight_size = last'.msg.payload.mmap_size
            /\ InflightMapping(vdev') \in mappings'
            /\ InflightRegion(vdev', inflight_file') = inflight_file ]_vars

\* the file of two queues was written to after GET_INFLIGHT_FD and then
\* handed back whole with SET_INFLIGHT_FD
C24_Witness ==
    /\ IsRequest(last, "SET_INFLIGHT_FD")
    /\ last.status = "0"
    /\ Len(inflight_file) = 6
    /\ last.msg.payload.mmap_size = 6 * InflightRegionSize
    /\ inflight_file[1].used_idx = 1
    /\ inflight_file[2].used_idx = 1
    /\ InflightRegion(vdev, inflight_file) = inflight_file

----------------------------------------------------------------------------
(* Ownership of received descriptors *)

\* the descriptors the device state refers to
StoredFds(vd) ==
    ( { vd.guest_memmap[i].fd :
          i \in { j \in DOMAIN vd.guest_memmap : is_region_mapped(vd.guest_memmap[j]) } }
      \cup { vd.vrings[i].kickfd : i \in DOMAIN vd.vrings }
      \cup { vd.vrings[i].callfd : i \in DOMAIN vd.vrings }
      \cup { vd.vrings[i].errfd : i \in DOMAIN vd.vrings }
      \cup { vd.inflightfd } ) \cap Fds

\* C25: after every handler that receives file descriptors, each received fd
\* is either stored in device state (memory region, vring kick/call/err,
\* inflight) or has been closed, also when the request is rejected, and an fd
\* replaced in state by a later message is closed.
C25_ReceivedFdsStoredOrClosed ==
    [][ (last'.op = "conn_read" /\ last'.fds # <<>>) =>
            /\ \A fd \in SeqToSet(last'.fds) :
                  fd \in StoredFds(vdev') \/ fd \notin open_fds'
            /\ \A fd \in StoredFds(vdev) \ StoredFds(vdev') :
                  fd \notin open_fds' ]_vars

----------------------------------------------------------------------------
(* Memory under an enabled vring *)

IsMappedIn(maps, a) == \E m \in maps : a >= m.addr /\ a < m.addr + m.len

\* the rings of every enabled vring lie in mapped memory
RingMemoryMapped(w) ==
    \A i \in DOMAIN w.vdev.vrings :
        w.vdev.vrings[i].is_enabled =>
            \A a \in {w.vdev.vrings[i].vq.desc, w.vdev.vrings[i].vq.avail,
                      w.vdev.vrings[i].vq.used} :
                IsMappedIn(w.mappings, a)

\* C26: in every reachable state, and in every intermediate step of a
\* disconnect, the guest memory from which an enabled vring's desc, avail
\* and used addresses were translated is still mapped: memory is unmapped
\* only after the vring has been disabled.
C26_EnabledVringMemoryMapped ==
    /\ RingMemoryMapped(World)
    /\ (api = "initialized" /\ vdev.state = VDEV_CONNECTED) =>
          \A k \in 1 .. 5 : RingMemoryMapped(terminate_connection_trace(World)[k])

----------------------------------------------------------------------------
(* The kick callback against the vhost loop *)

\* C27: under every interleaving of the vhost loop (enabling and disabling
\* a vring) with the request queue's loop (running vring_io_event), the
\* kick callback observes is_enabled = TRUE: it never takes its "event on
\* disabled vring" error branch.
C27_CallbackSeesEnabled ==
    [][ last'.op = "vring_io_event" =>
            /\ vdev.vrings[last'.msg.payload].is_enabled
            /\ last'.ret # "-EINVAL" ]_vars

----------------------------------------------------------------------------
(* What enabling a vring requires *)

\* the step handles an enable request for a vring of the device:
\* SET_VRING_ENABLE(i, 1), or SET_VRING_KICK(i) in legacy mode
EnableRequestStep ==
    /\ last'.op = "conn_read"
    /\ \/ last'.msg.req = "SET_VRING_ENABLE" /\ last'.msg.payload.num = 1
       \/ /\ last'.msg.req = "SET_VRING_KICK"
          /\ ~has_feature(vdev.negotiated_features, F_PROTOCOL_FEATURES)
    /\ get_vring(vdev, last'.msg.payload.index) # -1

\* C28: enabling a vring succeeds only when desc_addr, avail_addr,
\* used_addr, num, base and kickfd have all been supplied on the current
\* connection; an enable request with any of them missing fails and leaves
\* the vring disabled with no kick event registered.  Stated for the first
\* request of a connection, when the master has supplied none of them but,
\* with SET_VRING_KICK, the kickfd.
C28_EnableNeedsSetupOnConnection ==
    [][ (last.op = "server_read" /\ last.ret = "0" /\ EnableRequestStep) =>
            LET i == last'.msg.payload.index
            IN  /\ last'.status # "0"
                /\ ~vdev'.vrings[i].is_enabled
                /\ ~\E e \in rq_events' : e.vring = i ]_vars

----------------------------------------------------------------------------
(* Vrings after construction *)

\* C29: right after vdev_init_server, every vring i < max_queues has id = i,
\* is disabled, and has kickfd = callfd = errfd = -1.
C29_VringsAfterInit ==
    (last.op = "init_server" /\ last.ret = "0") =>
        /\ DOMAIN vdev.vrings = 0 .. (vdev.max_queues - 1)
        /\ \A i \in DOMAIN vdev.vrings :
              /\ vdev.vrings[i].id = i
              /\ ~vdev.vrings[i].is_enabled
              /\ vdev.vrings[i].kickfd = -1
              /\ vdev.vrings[i].callfd = -1
              /\ vdev.vrings[i].errfd = -1

----------------------------------------------------------------------------
(* The setters of ring size, base and addresses *)

VringSetters == {"SET_VRING_NUM", "SET_VRING_BASE", "SET_VRING_ADDR"}

\* C30: SET_VRING_NUM, SET_VRING_BASE and SET_VRING_ADDR on an enabled vring
\* or on an index >= num_queues return EINVAL and leave client_info
\* unchanged; SET_VRING_ADDR stores the three translated addresses only when
\* the translation succeeds for all of desc, avail and used, and otherwise
\* returns EINVAL and changes none of them.
C30_SettersRefuseAndAddrAllOrNothing ==
    [][ (last'.op = "conn_read" /\ last'.msg.req \in VringSetters) =>
            LET m == last'.msg
                i == m.payload.index
                refused == i >= vdev.num_queues \/ vdev.vrings[i].is_enabled
            IN  /\ refused =>
                      /\ last'.status = "EINVAL"
                      /\ vdev'.vrings = vdev.vrings
                /\ (m.req = "SET_VRING_ADDR" /\ ~refused) =>
                      LET desc == map_uva(vdev.guest_memmap, m.payload.desc_addr)
                          avail == map_uva(vdev.guest_memmap, m.payload.avail_addr)
                          used == map_uva(vdev.guest_memmap, m.payload.used_addr)
                      IN  IF desc # NULL /\ avail # NULL /\ used # NULL
                          THEN /\ last'.status = "0"
                               /\ vdev'.vrings =
                                     [vdev.vrings EXCEPT
                                        ![i].client_info.desc_addr = desc,
                                        ![i].client_info.avail_addr = avail,
                                        ![i].client_info.used_addr = used]
                          ELSE /\ last'.status = "EINVAL"
                               /\ vdev'.vrings = vdev.vrings ]_vars

\* SET_VRING_ADDR for the disabled vring 0 with desc and avail inside the
\* mapped region and used outside of it was refused, after an earlier
\* SET_VRING_ADDR had stored three addresses
C30_Witness ==
    /\ IsRequest(last, "SET_VRING_ADDR")
    /\ last.status = "EINVAL"
    /\ last.msg.payload.index = 0
    /\ ~vdev.vrings[0].is_enabled
    /\ map_uva(vdev.guest_memmap, last.msg.payload.desc_addr) # NULL
    /\ map_uva(vdev.guest_memmap, last.msg.payload.used_addr) = NULL
    /\ vdev.vrings[0].client_info.used_addr # NULL

----------------------------------------------------------------------------
(* GET_VRING_BASE *)

\* C31: GET_VRING_BASE on a valid index replies the virtqueue's last_avail;
\* when F_PROTOCOL_FEATURES is not negotiated the vring is disabled (kick
\* event detached, virtqueue released) before the reply is sent, so also
\* when the send fails, and when it is negotiated the enable flag is
\* unchanged.
C31_GetVringBase ==
    [][ ( /\ IsRequest(last', "GET_VRING_BASE")
          /\ get_vring(vdev, last'.msg.payload.index) # -1 ) =>
            LET i == last'.msg.payload.index
                reply == [req |-> "GET_VRING_BASE", flags |-> {"REPLY"},
                          payload |-> vdev.vrings[i].vq.last_avail]
            IN  /\ last'.sent = IF last'.status = "0" THEN <<reply>> ELSE <<>>
                /\ IF has_feature(vdev.negotiated_features, F_PROTOCOL_FEATURES)
                   THEN vdev'.vrings = vdev.vrings /\ rq_events' = rq_events
                   ELSE /\ ~vdev'.vrings[i].is_enabled
                        /\ ~vdev'.vrings[i].vq.attached
                        /\ ~\E e \in rq_events' : e.vring = i ]_vars

----------------------------------------------------------------------------
(* The notify descriptor of an enabled vring *)

\* C32: whenever a vring is enabled, the notify fd of its virtqueue equals
\* the vring's current callfd: enabling installs callfd, and a
\* SET_VRING_CALL received while the vring is enabled updates both.
C32_NotifyFdIsCallfd ==
    \A i \in DOMAIN vdev.vrings :
        vdev.vrings[i].is_enabled =>
            vdev.vrings[i].vq.notify_fd = vdev.vrings[i].callfd

\* SET_VRING_CALL has just given the enabled vring 0 a new callfd
C32_Witness ==
    /\ IsRequest(last, "SET_VRING_CALL")
    /\ last.status = "0"
    /\ last.msg.payload.index = 0
    /\ vdev.vrings[0].is_enabled
    /\ vdev.vrings[0].callfd = last.fds[1]
    /\ vdev.vrings[0].vq.notify_fd = last.fds[1]

\* C33: in legacy mode, under every interleaving with the request queue's
\* loop, the base replied by GET_VRING_BASE equals the virtqueue's
\* last_avail at the moment the vring stops processing: no dispatch advances
\* last_avail between the handler's read of it and the detach of the kick
\* event.
C33_RepliedBaseIsFinal ==
    [][ ( /\ IsRequest(last', "GET_VRING_BASE")
          /\ get_vring(vdev, last'.msg.payload.index) # -1
          /\ ~has_feature(vdev.negotiated_features, F_PROTOCOL_FEATURES)
          /\ last'.sent # <<>> ) =>
            last'.sent[1].payload =
                vdev'.vrings[last'.msg.payload.index].vq.last_avail ]_vars

----------------------------------------------------------------------------
(* Failed transitions *)

\* the step ran change_device_state for CONNECTED -> LISTENING or for
\* LISTENING -> CONNECTED, and the registration of the event failed
FailedTransitionStep ==
    /\ last'.cds # <<>>
    /\ <<last'.cds[1], last'.cds[2]>> \in
          {<<VDEV_CONNECTED, VDEV_LISTENING>>, <<VDEV_LISTENING, VDEV_CONNECTED>>}
    /\ last'.cds[3] # "0"

\* listenfd, or an open connfd, is registered with the vhost event loop
SocketRegistered(vd, fds, events) ==
    \E e \in events : e.fd = vd.listenfd \/ (e.fd = vd.connfd /\ vd.connfd \in fds)

\* C34: a permitted transition whose event registration fails leaves the
\* whole device as it was before the attempt: the connection, memory map,
\* vrings, is_owned and fd registrations are unchanged, so the device is
\* never left in a state where neither listenfd nor an open connfd is
\* registered with the vhost event loop.
C34_FailedTransitionChangesNothing ==
    [][ FailedTransitionStep =>
            /\ vdev'.state = vdev.state
            /\ (vdev'.connfd \in open_fds') = (vdev.connfd \in open_fds)
            /\ open_fds' = open_fds
            /\ vdev'.guest_memmap = vdev.guest_memmap
            /\ mappings' = mappings
            /\ vdev'.vrings = vdev.vrings
            /\ vdev'.is_owned = vdev.is_owned
            /\ vhost_events' = vhost_events
            /\ rq_events' = rq_events
            /\ SocketRegistered(vdev', open_fds', vhost_events') ]_vars

----------------------------------------------------------------------------
(* The registry *)

\* C35: vdev_init_server publishes the device in the registry and moves it
\* to LISTENING; when arming the listen socket fails it performs uninit and
\* returns the error; so in every reachable state the device is in the
\* registry if and only if init_server created its listen socket and uninit
\* has not run for it.
C35_RegistryIffLive ==
    /\ ("vdev" \in g_vdevs) <=> (api = "initialized")
    /\ last.op = "init_server" =>
          /\ last.ret = "0" =>
                /\ vdev.state = VDEV_LISTENING
                /\ "vdev" \in g_vdevs
          /\ (last.cds # <<>> /\ last.cds[3] # "0") =>
                /\ last.ret = last.cds[3]
                /\ vdev.listenfd \in SeqToSet(last.closed)
                /\ vdev.listenfd \notin open_fds
                /\ "vdev" \notin g_vdevs

\* init_server got its listen socket, failed to arm it, and has undone the
\* registration
C35_Witness ==
    /\ last.op = "init_server"
    /\ last.cds # <<>>
    /\ last.ret = "-ENOMEM"
    /\ api = "destroyed"
    /\ g_vdevs = {}
    /\ vdev.listenfd \in SeqToSet(last.closed)

====
